---- MODULE Spec2Model ----
(***************************************************************************)
(* Burn-hotspot monitoring pipeline: temporal aggregation, spatial         *)
(* aggregation and threshold/anomaly alerting.                             *)
(*                                                                         *)
(* A table (pandas DataFrame) is a sequence of rows; a row is a record.    *)
(* A timestamp is a day number counted from 2024-01-01 (day 0, a Monday);  *)
(* NaT is the unparseable timestamp.  Means and variances are exact        *)
(* fractions [num, den]; the fraction with den = 0 is NaN.  A standard     *)
(* deviation is carried as its square (the variance), and every comparison *)
(* against "mean + k * stddev" is made on the squares.                     *)
(***************************************************************************)
EXTENDS Integers, Sequences, FiniteSets, TLC

VARIABLES
    df,         \* the observation table handed to the aggregators
    agregados,  \* the aggregate tables handed to verificar_alertas
    config,     \* the alert configuration (config['limites'])
    chamada,    \* the last operation called and its arguments
    retorno,    \* what that operation returned
    arquivo_config,  \* the configuration file on disk
    log,        \* the levels of the records the last carregar_config logged
    bruto,      \* the raw CSV file handed to tratar_arquivo
    execucoes,  \* the pipeline runs: each run's flags, position and results
    arquivo_alertas,  \* the lines of the alert log file
    coleta      \* the collector: the days, the files on disk, the attempts

vars == <<df, agregados, config, chamada, retorno, arquivo_config, log, bruto,
         execucoes, arquivo_alertas, coleta>>

-----------------------------------------------------------------------------
(* Bounds of the model *)

\* longest observation table enumerated exhaustively
MaxLinhas == 3
\* number of distinct dates in the structured tables
NumDatas == 8
\* largest number of extra observations on one date of a structured table
MaxExtra == 2
\* largest count of a row of a regional aggregate table
MaxFocos == 2
\* longest raw file
MaxBrutas == 2

\* longest periodic series handed to the report
MaxPeriodos == 8

\* largest number of alert runs appended to the alert log
MaxBlocos == 2

\* last day of the date ranges handed to the synthetic collector
MaxDiasDeColeta == 2

\* longest stream of answers of the download server
MaxRespostas == 3

-----------------------------------------------------------------------------
(* Values *)

NaT == -1
\* value of a cell whose column does not exist in the table
Ausente == -2

NaN == [num |-> 0, den |-> 0]
Fracao(n, d) == [num |-> n, den |-> d]
EhNaN(q) == q.den = 0

\* q1 = q2 as numbers (NaN equals nothing)
FracaoIgual(q1, q2) ==
    /\ ~EhNaN(q1)
    /\ ~EhNaN(q2)
    /\ q1.num * q2.den = q2.num * q1.den

\* x > media + (kn / kd) * sqrt(variancia); any comparison with NaN is False
AcimaDoLimite(x, media, variancia, kn, kd) ==
    /\ ~EhNaN(media)
    /\ ~EhNaN(variancia)
    /\ x * media.den > media.num
    /\ (x * media.den - media.num) * (x * media.den - media.num)
           * kd * kd * variancia.den
         > kn * kn * variancia.num * media.den * media.den

RECURSIVE Ordenar(_)
Ordenar(S) ==
    IF S = {} THEN <<>>
    ELSE LET m == CHOOSE x \in S : \A y \in S : x <= y
         IN  <<m>> \o Ordenar(S \ {m})

RECURSIVE Soma(_, _, _)
Soma(xs, lo, hi) == IF lo > hi THEN 0 ELSE xs[hi] + Soma(xs, lo, hi - 1)

RECURSIVE SomaQuadrados(_, _, _)
SomaQuadrados(xs, lo, hi) ==
    IF lo > hi THEN 0 ELSE xs[hi] * xs[hi] + SomaQuadrados(xs, lo, hi - 1)

Maximo(xs) == CHOOSE m \in {xs[i] : i \in DOMAIN xs} : \A i \in DOMAIN xs : xs[i] <= m

Coluna(linhas, nome) == [i \in DOMAIN linhas |-> linhas[i][nome]]

-----------------------------------------------------------------------------
(* Calendar: day numbers from 2024-01-01 *)

\* first day of each month of 2024 (leap year) and 2025
InicioDosMeses ==
    { 0, 31, 60, 91, 121, 152, 182, 213, 244, 274, 305, 335,
      366, 397, 425, 456, 486, 517, 547, 578, 609, 639, 670, 700 }

\* to_period('W').start_time: weeks end on Sunday, so they start on Monday
InicioDaSemana(d) == d - (d % 7)
\* to_period('M').start_time
InicioDoMes(d) == CHOOSE m \in InicioDosMeses :
                      m <= d /\ \A n \in InicioDosMeses : n <= d => n <= m
\* to_period('Y').start_time
InicioDoAno(d) == IF d < 366 THEN 0 ELSE 366

PeriodoDe(d, periodo) ==
    IF d = NaT THEN NaT
    ELSE CASE periodo = "dia"    -> d
           [] periodo = "semana" -> InicioDaSemana(d)
           [] periodo = "mes"    -> InicioDoMes(d)
           [] periodo = "ano"    -> InicioDoAno(d)
           [] OTHER              -> d

-----------------------------------------------------------------------------
(* pandas primitives *)

GroupBySizeComNulos(chaves) ==
    LET ks == Ordenar({chaves[i] : i \in DOMAIN chaves})
    IN  [j \in DOMAIN ks |->
            [chave |-> ks[j],
             focos |-> Cardinality({i \in DOMAIN chaves : chaves[i] = ks[j]})]]

\* df.groupby(key).size().reset_index(name='focos'): one row per distinct
\* non-null key, keys ascending
GroupBySize(chaves) ==
    LET ks == Ordenar({chaves[i] : i \in DOMAIN chaves} \ {NaT})
    IN  [j \in DOMAIN ks |->
            [chave |-> ks[j],
             focos |-> Cardinality({i \in DOMAIN chaves : chaves[i] = ks[j]})]]

\* running sum of a rolling window: the new value enters, the value that
\* left the window is removed
RECURSIVE SomaJanela(_, _, _)
SomaJanela(xs, window, i) ==
    IF i = 0 THEN 0
    ELSE SomaJanela(xs, window, i - 1) + xs[i]
           - (IF i > window THEN xs[i - window] ELSE 0)

RECURSIVE SomaQuadradosJanela(_, _, _)
SomaQuadradosJanela(xs, window, i) ==
    IF i = 0 THEN 0
    ELSE SomaQuadradosJanela(xs, window, i - 1) + xs[i] * xs[i]
           - (IF i > window THEN xs[i - window] * xs[i - window] ELSE 0)

NObs(window, i) == IF i > window THEN window ELSE i

\* Series.rolling(window, min_periods).mean()
RollingMean(xs, window, min_periods) ==
    [i \in DOMAIN xs |->
        IF NObs(window, i) < min_periods THEN NaN
        ELSE Fracao(SomaJanela(xs, window, i), NObs(window, i))]

\* sample variance (ddof = 1) of n values with sum s and sum of squares q
Variancia(n, s, q) ==
    IF n < 2 THEN NaN ELSE Fracao(n * q - s * s, n * (n - 1))

\* Series.rolling(window, min_periods).std(), as its square
RollingVar(xs, window, min_periods) ==
    [i \in DOMAIN xs |->
        IF NObs(window, i) < min_periods THEN NaN
        ELSE Variancia(NObs(window, i), SomaJanela(xs, window, i),
                       SomaQuadradosJanela(xs, window, i))]

-----------------------------------------------------------------------------
(* analise/utils_analise.py *)

calcular_media_movel_sem_min_periods(serie, janela) ==
    RollingMean(serie, IF janela <= 0 THEN 1 ELSE janela,
                IF janela <= 0 THEN 1 ELSE janela)

calcular_media_movel(serie, janela) ==
    LET j == IF janela <= 0 THEN 1 ELSE janela
    IN  RollingMean(serie, j, 1)

\* desvio_padrao holds the variance (Series.std() squared, ddof = 1)
calcular_estatisticas(serie) ==
    LET n == Len(serie)
        s == Soma(serie, 1, n)
    IN  [media         |-> IF n = 0 THEN NaN ELSE Fracao(s, n),
         desvio_padrao |-> Variancia(n, s, SomaQuadrados(serie, 1, n)),
         maximo        |-> IF n = 0 THEN NaT ELSE Maximo(serie),
         total         |-> s,
         contagem      |-> n]

-----------------------------------------------------------------------------
(* Return values *)

SemEstatisticas == [media |-> NaN, desvio_padrao |-> NaN, maximo |-> NaT,
                    total |-> 0, contagem |-> 0]

\* tipo: "None", "tupla" (table, statistics), "DataFrame", "lista", or
\* "nada" before any call
Retorno(tipo, linhas, estatisticas) ==
    [tipo |-> tipo, linhas |-> linhas, estatisticas |-> estatisticas]

None == Retorno("None", <<>>, SemEstatisticas)

-----------------------------------------------------------------------------
(* monitoramento_queimadas/analise/analise_temporal.py *)

\* the 'periodo' column the aggregator writes into the caller's table
ComPeriodo(tabela, periodo) ==
    [i \in DOMAIN tabela |->
        [tabela[i] EXCEPT !.periodo = PeriodoDe(tabela[i].data, periodo)]]

pico_com_um_desvio(focos, estatisticas) ==
    AcimaDoLimite(focos, estatisticas.media, estatisticas.desvio_padrao, 1, 1)

\* limite_pico = media + 2 * desvio_padrao; pico = focos > limite_pico
pico(focos, estatisticas) ==
    AcimaDoLimite(focos, estatisticas.media, estatisticas.desvio_padrao, 2, 1)

\* the aggregation proper: group by period, sort, rolling mean, statistics,
\* peak flag, percent of maximum
agregar_por_periodo(tabela, periodo, janela_media_movel) ==
    LET grupos == GroupBySize(Coluna(ComPeriodo(tabela, periodo), "periodo"))
        focos  == Coluna(grupos, "focos")
        mm     == calcular_media_movel(focos, janela_media_movel)
        est    == calcular_estatisticas(focos)
    IN  Retorno("tupla",
            [i \in DOMAIN grupos |->
                [periodo        |-> grupos[i].chave,
                 focos          |-> grupos[i].focos,
                 media_movel    |-> mm[i],
                 pico           |-> pico(grupos[i].focos, est),
                 percentual_max |-> Fracao(100 * grupos[i].focos, est.maximo)]],
            est)

\* the value returned; on the non-empty path the caller's table becomes
\* ComPeriodo(tabela, periodo)
analisar_serie_temporal(tabela, periodo, janela_media_movel) ==
    IF Len(tabela) = 0 THEN None
    ELSE agregar_por_periodo(tabela, periodo, janela_media_movel)

-----------------------------------------------------------------------------
(* src/analise/analise_temporal.py *)

\* rolling(window=7) leaves min_periods at its default, the window size
gerar_serie_temporal(tabela) ==
    LET grupos == GroupBySize(Coluna(tabela, "data"))
        mm     == RollingMean(Coluna(grupos, "focos"), 7, 7)
    IN  Retorno("DataFrame",
            [i \in DOMAIN grupos |->
                [data        |-> grupos[i].chave,
                 focos       |-> grupos[i].focos,
                 media_movel |-> mm[i]]],
            SemEstatisticas)

-----------------------------------------------------------------------------
(* monitoramento_queimadas/analise/analise_espacial.py *)

\* region and biome names in ascending (code point) order
Nomes == <<"AM", "Amazonia", "Cerrado", "Desconhecido", "PA", "SP", "XX", "sp">>
Posicao(nome) ==
    IF \E i \in DOMAIN Nomes : Nomes[i] = nome
    THEN CHOOSE i \in DOMAIN Nomes : Nomes[i] = nome
    ELSE NaT

\* the missing keys gathered in a group of their own
GroupByNomeComDesconhecido(chaves) ==
    LET grupos == GroupBySize([i \in DOMAIN chaves |->
                      Posicao(IF chaves[i] = "" THEN "Desconhecido" ELSE chaves[i])])
    IN  [j \in DOMAIN grupos |->
            [chave |-> Nomes[grupos[j].chave], focos |-> grupos[j].focos]]

\* groupby on a column of names: rows without the key fall in no group
GroupByNome(chaves) ==
    LET grupos == GroupBySize([i \in DOMAIN chaves |-> Posicao(chaves[i])])
    IN  [j \in DOMAIN grupos |->
            [chave |-> Nomes[grupos[j].chave], focos |-> grupos[j].focos]]

\* sort_values('focos', ascending=False): the rows in descending order of
\* count.  The sort is the default one (kind='quicksort'), which is not
\* stable: rows with equal counts may come out in any order, so the result
\* is one of the descending arrangements of the rows.
sort_values(grupos) ==
    LET n == Len(grupos)
        arranjos == {p \in [1..n -> 1..n] : \A i, j \in 1..n : i # j => p[i] # p[j]}
    IN  {[i \in 1..n |-> grupos[p[i]]] :
            p \in {q \in arranjos :
                      \A i \in 1..(n - 1) : grupos[q[i]].focos >= grupos[q[i + 1]].focos}}

Proporcao(focos, total_focos) == Fracao(focos, total_focos)

\* (focos / total_focos) * 100
Percentual(focos, total_focos) == Fracao(100 * focos, total_focos)

\* the table built from the sorted groups, with the percentual column
TabelaPorUf(focos_por_uf) ==
    LET total_focos == Soma(Coluna(focos_por_uf, "focos"), 1, Len(focos_por_uf))
    IN  Retorno("DataFrame",
            [i \in DOMAIN focos_por_uf |->
                [uf         |-> focos_por_uf[i].chave,
                 focos      |-> focos_por_uf[i].focos,
                 percentual |-> Percentual(focos_por_uf[i].focos, total_focos)]],
            SemEstatisticas)

TabelaPorBioma(focos_por_bioma) ==
    LET total_focos == Soma(Coluna(focos_por_bioma, "focos"), 1, Len(focos_por_bioma))
    IN  Retorno("DataFrame",
            [i \in DOMAIN focos_por_bioma |->
                [bioma      |-> focos_por_bioma[i].chave,
                 focos      |-> focos_por_bioma[i].focos,
                 percentual |-> Percentual(focos_por_bioma[i].focos, total_focos)]],
            SemEstatisticas)

\* the values analisar_por_uf can return for a table: one for each order the
\* sort can leave the groups in
analisar_por_uf(tabela) ==
    IF Len(tabela) = 0 THEN {None}
    ELSE {TabelaPorUf(focos_por_uf) :
              focos_por_uf \in sort_values(GroupByNome(Coluna(tabela, "uf")))}

analisar_por_bioma(tabela) ==
    IF Len(tabela) = 0 THEN {None}
    ELSE {TabelaPorBioma(focos_por_bioma) :
              focos_por_bioma \in sort_values(GroupByNome(Coluna(tabela, "bioma")))}

-----------------------------------------------------------------------------
(* monitoramento-queimadas/alertas/alertas.py *)

\* strftime('%Y-%m-%d'): the calendar fields the text is made of
strftime(d) ==
    [ano |-> IF d < 366 THEN 2024 ELSE 2025,
     mes |-> Cardinality({m \in InicioDosMeses : InicioDoAno(d) <= m /\ m <= d}),
     dia |-> d - InicioDoMes(d) + 1]

\* a dict has the key: the section may hold Ausente for a key it lacks
TemChave(secao, chave) == chave \in DOMAIN secao /\ secao[chave] # Ausente

\* serie_temporal is None or serie_temporal.empty
SemLinhas(tabela) == tabela.tipo = "None" \/ Len(tabela.linhas) = 0

\* the outcome of a block of the evaluator: the alerts it appended and
\* whether it raised (a KeyError on a missing configuration key)
Bloco(lista, erro) == [alertas |-> lista, erro |-> erro]

alerta_diario_maior_ou_igual(serie_temporal, limite_diario) ==
    LET ultimo_dia == serie_temporal[Len(serie_temporal)]
    IN  IF ultimo_dia.focos >= limite_diario
        THEN << [tipo   |-> "global_diario",
                 data   |-> strftime(ultimo_dia.periodo),
                 valor  |-> ultimo_dia.focos,
                 limite |-> limite_diario] >>
        ELSE <<>>

alerta_diario(serie_temporal, limite_diario) ==
    LET ultimo_dia == serie_temporal[Len(serie_temporal)]
    IN  IF ultimo_dia.focos > limite_diario
        THEN << [tipo   |-> "global_diario",
                 data   |-> strftime(ultimo_dia.periodo),
                 valor  |-> ultimo_dia.focos,
                 limite |-> limite_diario] >>
        ELSE <<>>

alerta_semanal(serie_temporal, limite_semanal) ==
    LET ultimos_7_dias == IF Len(serie_temporal) >= 7
                          THEN SubSeq(serie_temporal, Len(serie_temporal) - 6,
                                      Len(serie_temporal))
                          ELSE serie_temporal
        total_semanal == Soma(Coluna(ultimos_7_dias, "focos"), 1, Len(ultimos_7_dias))
    IN  IF total_semanal > limite_semanal
        THEN << [tipo        |-> "global_semanal",
                 data_inicio |-> strftime(ultimos_7_dias[1].periodo),
                 data_fim    |-> strftime(ultimos_7_dias[Len(ultimos_7_dias)].periodo),
                 valor       |-> total_semanal,
                 limite      |-> limite_semanal] >>
        ELSE <<>>

alertas_globais(serie_temporal, limites_global) ==
    IF SemLinhas(serie_temporal) THEN Bloco(<<>>, FALSE)
    ELSE IF ~TemChave(limites_global, "diario") THEN Bloco(<<>>, TRUE)
    ELSE LET diario == alerta_diario(serie_temporal.linhas, limites_global.diario)
         IN  IF ~TemChave(limites_global, "semanal") THEN Bloco(diario, TRUE)
             ELSE Bloco(diario \o alerta_semanal(serie_temporal.linhas,
                                                 limites_global.semanal), FALSE)

\* limites.get(chave, limite_default)
limite_da_regiao(limites, chave) ==
    IF TemChave(limites, chave) THEN limites[chave] ELSE limites.default

RECURSIVE alertas_uf(_, _, _)
alertas_uf(focos_por_uf, limites_uf, n) ==
    IF n = 0 THEN <<>>
    ELSE LET row    == focos_por_uf[n]
             limite == limite_da_regiao(limites_uf, row.uf)
         IN  alertas_uf(focos_por_uf, limites_uf, n - 1)
               \o (IF row.focos > limite
                   THEN << [tipo |-> "uf", uf |-> row.uf,
                            valor |-> row.focos, limite |-> limite] >>
                   ELSE <<>>)

RECURSIVE alertas_bioma(_, _, _)
alertas_bioma(focos_por_bioma, limites_bioma, n) ==
    IF n = 0 THEN <<>>
    ELSE LET row    == focos_por_bioma[n]
             limite == limite_da_regiao(limites_bioma, row.bioma)
         IN  alertas_bioma(focos_por_bioma, limites_bioma, n - 1)
               \o (IF row.focos > limite
                   THEN << [tipo |-> "bioma", bioma |-> row.bioma,
                            valor |-> row.focos, limite |-> limite] >>
                   ELSE <<>>)

alertas_por_uf(focos_por_uf, limites_uf) ==
    IF SemLinhas(focos_por_uf) THEN Bloco(<<>>, FALSE)
    ELSE IF ~TemChave(limites_uf, "default") THEN Bloco(<<>>, TRUE)
    ELSE Bloco(alertas_uf(focos_por_uf.linhas, limites_uf, Len(focos_por_uf.linhas)),
               FALSE)

alertas_por_bioma(focos_por_bioma, limites_bioma) ==
    IF SemLinhas(focos_por_bioma) THEN Bloco(<<>>, FALSE)
    ELSE IF ~TemChave(limites_bioma, "default") THEN Bloco(<<>>, TRUE)
    ELSE Bloco(alertas_bioma(focos_por_bioma.linhas, limites_bioma,
                             Len(focos_por_bioma.linhas)), FALSE)

\* the alert list kept across calls: each call appends to what the previous
\* call returned
verificar_alertas_acumulando(serie_temporal, focos_por_uf, focos_por_bioma, limites) ==
    LET g == alertas_globais(serie_temporal, limites.global)
        u == alertas_por_uf(focos_por_uf, limites.por_uf)
        b == alertas_por_bioma(focos_por_bioma, limites.por_bioma)
    IN  Retorno("lista",
            (IF retorno.tipo = "lista" THEN retorno.linhas ELSE <<>>)
              \o g.alertas \o u.alertas \o b.alertas,
            SemEstatisticas)

\* the blocks run in order inside one try; the first exception ends the
\* evaluation and the alerts appended so far are returned
verificar_alertas(serie_temporal, focos_por_uf, focos_por_bioma, limites) ==
    LET g == alertas_globais(serie_temporal, limites.global)
        u == alertas_por_uf(focos_por_uf, limites.por_uf)
        b == alertas_por_bioma(focos_por_bioma, limites.por_bioma)
    IN  Retorno("lista",
            IF g.erro THEN g.alertas
            ELSE IF u.erro THEN g.alertas \o u.alertas
            ELSE g.alertas \o u.alertas \o b.alertas,
            SemEstatisticas)

-----------------------------------------------------------------------------
(* The alert log: alertas.salvar_alertas_arquivo, relatorio.carregar_dados_analise *)

\* The text of the log is a sequence of pieces: a line break, the dashes
\* "--- ", the word "FIM ", the marker "ALERTAS:", the rest of a header or
\* footer line " <data_hora> ---", and the message of an alert.
SemAlerta == [tipo |-> "nenhum"]
Pedaco(tipo, hora, alerta) == [tipo |-> tipo, hora |-> hora, alerta |-> alerta]
QuebraDeLinha == Pedaco("quebra", NaT, SemAlerta)
Tracos == Pedaco("tracos", NaT, SemAlerta)
PalavraFim == Pedaco("fim", NaT, SemAlerta)
Marca == Pedaco("ALERTAS:", NaT, SemAlerta)
DataHora(hora) == Pedaco("data_hora", hora, SemAlerta)
Mensagem(alerta) == Pedaco("mensagem", NaT, alerta)

\* f"{alerta['mensagem']}\n" for every alert
RECURSIVE LinhasDeMensagem(_)
LinhasDeMensagem(alertas) ==
    IF Len(alertas) = 0 THEN <<>>
    ELSE <<Mensagem(alertas[1]), QuebraDeLinha>> \o LinhasDeMensagem(Tail(alertas))

\* the block appended to the log; nothing is written for an empty list
salvar_alertas_arquivo(conteudo, alertas, data_hora) ==
    IF Len(alertas) = 0 THEN conteudo
    ELSE conteudo
           \o <<QuebraDeLinha, Tracos, Marca, DataHora(data_hora), QuebraDeLinha>>
           \o LinhasDeMensagem(alertas)
           \o <<Tracos, PalavraFim, Marca, DataHora(data_hora), QuebraDeLinha>>

\* conteudo.split('ALERTAS:')[-1]: the text after the last marker
DepoisDaUltimaMarca(conteudo) ==
    LET marcas == {i \in DOMAIN conteudo : conteudo[i] = Marca}
        ultima == CHOOSE i \in marcas : \A j \in marcas : j <= i
    IN  SubSeq(conteudo, ultima + 1, Len(conteudo))

\* trecho.split('FIM ALERTAS:')[0]: the text before the first "FIM ALERTAS:"
AntesDoFim(trecho) ==
    LET fins == {i \in 1..(Len(trecho) - 1) :
                    trecho[i] = PalavraFim /\ trecho[i + 1] = Marca}
    IN  IF fins = {} THEN trecho
        ELSE SubSeq(trecho, 1, (CHOOSE i \in fins : \A j \in fins : i <= j) - 1)

\* trecho.split('\n'), each line stripped, the empty lines dropped: a line
\* is the sequence of its pieces
RECURSIVE LinhasNaoVazias(_)
LinhasNaoVazias(trecho) ==
    LET quebras == {i \in DOMAIN trecho : trecho[i] = QuebraDeLinha}
        primeira == IF quebras = {} THEN Len(trecho) + 1
                    ELSE CHOOSE i \in quebras : \A j \in quebras : i <= j
        linha == SubSeq(trecho, 1, primeira - 1)
        resto == IF primeira >= Len(trecho) THEN <<>>
                 ELSE LinhasNaoVazias(SubSeq(trecho, primeira + 1, Len(trecho)))
    IN  IF Len(trecho) = 0 THEN <<>>
        ELSE (IF Len(linha) = 0 THEN <<>> ELSE <<linha>>) \o resto

\* the alert list the report loader extracts from the log
carregar_alertas(existe, conteudo) ==
    IF existe /\ \E i \in DOMAIN conteudo : conteudo[i] = Marca
    THEN LinhasNaoVazias(AntesDoFim(DepoisDaUltimaMarca(conteudo)))
    ELSE <<>>

\* the log file: whether it exists, its text, the clock of the alert runs,
\* and (history) the alerts of the most recent alert run
ArquivoDeAlertas(existe, conteudo, hora, ultimos) ==
    [existe |-> existe, conteudo |-> conteudo, hora |-> hora, ultimos |-> ultimos]
SemAlertasSalvos == ArquivoDeAlertas(FALSE, <<>>, 0, <<>>)

-----------------------------------------------------------------------------
(* src/alertas/alertas.py *)

\* round(x, 1), in tenths: to the nearest tenth, a tie to the even tenth
\* (Ausente for the inf or nan a division by zero leaves)
round1(q) ==
    IF q.den = 0 THEN Ausente
    ELSE LET t == (10 * q.num) \div q.den
             r == (10 * q.num) % q.den
         IN  IF 2 * r > q.den \/ (2 * r = q.den /\ t % 2 = 1) THEN t + 1 ELSE t

\* df[df[campo] == valor]
Filtrar(tabela, campo, valor) == SelectSeq(tabela, LAMBDA row : row[campo] = valor)

\* df[campo].unique(): the values in order of first appearance
RECURSIVE Unique(_)
Unique(xs) ==
    IF Len(xs) = 0 THEN <<>>
    ELSE LET antes == Unique(SubSeq(xs, 1, Len(xs) - 1))
         IN  IF \E i \in DOMAIN antes : antes[i] = xs[Len(xs)]
             THEN antes ELSE Append(antes, xs[Len(xs)])

\* df['data'].max(): NaT for a table with no parseable timestamp
DataMaxima(tabela) ==
    IF \A i \in DOMAIN tabela : tabela[i].data = NaT THEN NaT
    ELSE CHOOSE d \in {tabela[i].data : i \in DOMAIN tabela} :
             \A i \in DOMAIN tabela : tabela[i].data <= d

detectar_anomalias_limite_2(tabela) ==
    LET serie_diaria == GroupBySize(Coluna(tabela, "data"))
        focos        == Coluna(serie_diaria, "focos")
        media_movel  == RollingMean(focos, 7, 1)
        variancia    == RollingVar(focos, 7, 1)
    IN  SelectSeq([i \in DOMAIN serie_diaria |->
                      [data          |-> serie_diaria[i].chave,
                       focos         |-> focos[i],
                       media_movel   |-> media_movel[i],
                       desvio_padrao |-> variancia[i],
                       is_anomalia   |-> AcimaDoLimite(focos[i], media_movel[i],
                                                       variancia[i], 2, 1)]],
                  LAMBDA row : row.is_anomalia)

\* the baseline taken over the days before the current one, 0 where there
\* is none
detectar_anomalias_base_anterior(tabela) ==
    LET serie_diaria == GroupBySize(Coluna(tabela, "data"))
        focos        == Coluna(serie_diaria, "focos")
        anteriores   == <<0>> \o focos
        media_movel  == RollingMean(anteriores, 7, 1)
        variancia    == RollingVar(anteriores, 7, 1)
        var0(i)      == IF EhNaN(variancia[i]) THEN Fracao(0, 1) ELSE variancia[i]
    IN  SelectSeq([i \in DOMAIN serie_diaria |->
                      [data          |-> serie_diaria[i].chave,
                       focos         |-> focos[i],
                       media_movel   |-> media_movel[i],
                       desvio_padrao |-> var0(i),
                       is_anomalia   |-> AcimaDoLimite(focos[i], media_movel[i],
                                                       var0(i), 3, 2)]],
                  LAMBDA row : row.is_anomalia)

\* the rows of the daily series flagged as anomalies (limite_desvio = 1.5)
detectar_anomalias(tabela) ==
    LET serie_diaria == GroupBySize(Coluna(tabela, "data"))
        focos        == Coluna(serie_diaria, "focos")
        media_movel  == RollingMean(focos, 7, 1)
        variancia    == RollingVar(focos, 7, 1)
    IN  SelectSeq([i \in DOMAIN serie_diaria |->
                      [data          |-> serie_diaria[i].chave,
                       focos         |-> focos[i],
                       media_movel   |-> media_movel[i],
                       desvio_padrao |-> variancia[i],
                       is_anomalia   |-> AcimaDoLimite(focos[i], media_movel[i],
                                                       variancia[i], 3, 2)]],
                  LAMBDA row : row.is_anomalia)

\* aumento = ((focos_hoje - media) / media) * 100, as a fraction
Aumento(focos_hoje, media) ==
    Fracao(100 * (focos_hoje * media.den - media.num), media.num)

\* aumento > 100
AumentoAcimaDe100(focos_hoje, media) == focos_hoje * media.den > 2 * media.num

alerta_da_regiao(tipo, local, tabela, campo, data_ref) ==
    LET anomalias == SelectSeq(detectar_anomalias(Filtrar(tabela, campo, local)),
                               LAMBDA row : row.data = data_ref)
    IN  IF Len(anomalias) = 0 THEN <<>>
        ELSE LET focos_hoje == anomalias[1].focos
                 media      == anomalias[1].media_movel
             IN  << [tipo    |-> tipo,
                     local   |-> local,
                     data    |-> data_ref,
                     focos   |-> focos_hoje,
                     media   |-> round1(media),
                     aumento |-> round1(Aumento(focos_hoje, media)),
                     nivel   |-> IF AumentoAcimaDe100(focos_hoje, media)
                                 THEN "ALTO" ELSE "MEDIO"] >>

RECURSIVE alertas_das_regioes(_, _, _, _, _, _)
alertas_das_regioes(tipo, locais, tabela, campo, data_ref, n) ==
    IF n = 0 THEN <<>>
    ELSE alertas_das_regioes(tipo, locais, tabela, campo, data_ref, n - 1)
           \o alerta_da_regiao(tipo, locais[n], tabela, campo, data_ref)

\* data_ref = NaT stands for the argument left at None
gerar_alerta_por_regiao(tabela, data_ref) ==
    LET ref    == IF data_ref = NaT THEN DataMaxima(tabela) ELSE data_ref
        ufs    == Unique(Coluna(tabela, "uf"))
        biomas == Unique(Coluna(tabela, "bioma"))
    IN  Retorno("lista",
            alertas_das_regioes("UF", ufs, tabela, "uf", ref, Len(ufs))
              \o alertas_das_regioes("Bioma", biomas, tabela, "bioma", ref, Len(biomas)),
            SemEstatisticas)

-----------------------------------------------------------------------------
(* monitoramento-queimadas/tratamento/tratamento.py and utils_tratamento.py *)

\* A cell of a coordinate column of the raw file: a number (in units of
\* 1/20000 of a degree, so that the mean of two values with four decimals
\* is a whole number of units), an empty cell, or text that is no number.
\* An empty cell of the uf or bioma column is the empty string.
Num(v) == [tipo |-> "num", v |-> v]
Nulo == [tipo |-> "nulo", v |-> 0]
Texto == [tipo |-> "texto", v |-> 0]

\* -33.7500 <= latitude <= 5.2725 and -73.9900 <= longitude <= -34.7930
validar_coordenadas_brasil(latitude, longitude) ==
    /\ -675000 <= latitude /\ latitude <= 105450
    /\ -1479800 <= longitude /\ longitude <= -695860

ufs_validas ==
    {"AC", "AL", "AM", "AP", "BA", "CE", "DF", "ES", "GO", "MA", "MG", "MS", "MT",
     "PA", "PB", "PE", "PI", "PR", "RJ", "RN", "RO", "RR", "RS", "SC", "SE", "SP", "TO"}

validar_uf_qualquer(uf) == uf # "Desconhecido"

validar_uf(uf) == uf \in ufs_validas

\* df.drop_duplicates(): the first of each group of equal rows is kept
drop_duplicates(tabela) == Unique(tabela)

\* the k-th smallest of a sequence of numbers
Kesimo(xs, k) ==
    CHOOSE v \in {xs[i] : i \in DOMAIN xs} :
        /\ Cardinality({i \in DOMAIN xs : xs[i] < v}) < k
        /\ Cardinality({i \in DOMAIN xs : xs[i] <= v}) >= k

\* Series.median() of the numbers of a column
Mediana(xs) ==
    IF Len(xs) % 2 = 1 THEN Kesimo(xs, (Len(xs) + 1) \div 2)
    ELSE (Kesimo(xs, Len(xs) \div 2) + Kesimo(xs, Len(xs) \div 2 + 1)) \div 2

\* the column has a numeric dtype: no cell of it is text
Numerica(tabela, coluna) == \A i \in DOMAIN tabela : tabela[i][coluna].tipo # "texto"

\* preencher_nulos on a coordinate column: the median for a numeric column
\* (an all-empty column has no median and stays empty), the empty string
\* for a column of text
PreencherCoordenada(tabela, coluna) ==
    LET numeros == SelectSeq(Coluna(tabela, coluna), LAMBDA c : c.tipo = "num")
        valores == [i \in DOMAIN numeros |-> numeros[i].v]
    IN  [i \in DOMAIN tabela |->
            IF tabela[i][coluna].tipo # "nulo" THEN tabela[i][coluna]
            ELSE IF ~Numerica(tabela, coluna) THEN Texto
            ELSE IF Len(valores) = 0 THEN Nulo
            ELSE Num(Mediana(valores))]

\* preencher_nulos: coordinates as above, uf and bioma get 'Desconhecido',
\* the date stays null
preencher_nulos(tabela) ==
    LET lat == PreencherCoordenada(tabela, "latitude")
        lon == PreencherCoordenada(tabela, "longitude")
    IN  [i \in DOMAIN tabela |->
            [tabela[i] EXCEPT
                !.latitude = lat[i],
                !.longitude = lon[i],
                !.uf = IF @ = "" THEN "Desconhecido" ELSE @,
                !.bioma = IF @ = "" THEN "Desconhecido" ELSE @]]

\* converter_tipos: pd.to_numeric(errors='coerce') on the coordinates
converter_tipos(tabela) ==
    [i \in DOMAIN tabela |->
        [tabela[i] EXCEPT
            !.latitude = IF @.tipo = "num" THEN @ ELSE Nulo,
            !.longitude = IF @.tipo = "num" THEN @ ELSE Nulo]]

coords_validas(row) ==
    IF row.latitude.tipo = "num" /\ row.longitude.tipo = "num"
    THEN validar_coordenadas_brasil(row.latitude.v, row.longitude.v)
    ELSE FALSE

uf_valida(row) == validar_uf(row.uf)

\* the rows tratar_arquivo saves
df_valido(linhas) ==
    LET tratadas == converter_tipos(preencher_nulos(drop_duplicates(linhas)))
    IN  preencher_nulos(SelectSeq(tratadas,
                                  LAMBDA row : coords_validas(row) /\ uf_valida(row)))

\* what a call of tratar_arquivo leaves: the path returned or None, the
\* rows of the output file, and whether the output file exists
Tratado(tipo, limpo, existe) == [tipo |-> tipo, limpo |-> limpo, existe |-> existe]

\* tratar_arquivo processing the raw file whether or not the output file
\* exists
tratar_arquivo_sempre(arquivo, limpo, force) ==
    IF ~arquivo.com_colunas THEN Tratado("None", limpo, arquivo.tratado)
    ELSE Tratado("caminho", df_valido(arquivo.linhas), TRUE)

\* an output file that exists is kept unless force is set; a raw file
\* without the uf, latitude or longitude column raises, which is caught and
\* answered with None
tratar_arquivo(arquivo, limpo, force) ==
    IF arquivo.tratado /\ ~force THEN Tratado("caminho", limpo, TRUE)
    ELSE IF ~arquivo.com_colunas THEN Tratado("None", limpo, arquivo.tratado)
    ELSE Tratado("caminho", df_valido(arquivo.linhas), TRUE)

-----------------------------------------------------------------------------
(* monitoramento-queimadas/relatorios/relatorio.py *)

\* what the report shows of the series: the period bounds, the total and
\* the trend; "N/A" is the value of a field that was not computed (the
\* trend item is then left out of the page)
Relatorio(periodo_inicio, periodo_fim, total_focos, tendencia) ==
    [tipo |-> "relatorio", linhas |-> <<>>, estatisticas |-> SemEstatisticas,
     periodo_inicio |-> periodo_inicio, periodo_fim |-> periodo_fim,
     total_focos |-> total_focos, tendencia |-> tendencia]

\* iloc[-7:] of a series of at least 7 rows, the whole series otherwise
ultimos_dias(linhas) ==
    IF Len(linhas) >= 7 THEN SubSeq(linhas, Len(linhas) - 6, Len(linhas)) ELSE linhas

\* ultimo_valor > primeiro_valor * 1.2, ultimo_valor < primeiro_valor * 0.8:
\* on integer counts the floating-point products compare as the exact ones
tendencia_de(linhas) ==
    LET primeiro_valor == ultimos_dias(linhas)[1].focos
        ultimo_valor   == ultimos_dias(linhas)[Len(ultimos_dias(linhas))].focos
    IN  IF ultimo_valor * 10 > primeiro_valor * 12 THEN "Crescente"
        ELSE IF ultimo_valor * 10 < primeiro_valor * 8 THEN "Decrescente"
        ELSE "Estavel"

\* the trend is computed only when the series has more than one row
tendencia_da_serie(linhas) ==
    IF Len(linhas) > 1 THEN tendencia_de(linhas) ELSE "N/A"

\* a series that is None is replaced by an empty table; the statistics are
\* computed only when the series has rows
gerar_relatorio_html(serie_temporal) ==
    LET linhas   == IF serie_temporal.tipo = "None" THEN <<>> ELSE serie_temporal.linhas
        periodos == {linhas[i].periodo : i \in DOMAIN linhas}
    IN  IF Len(linhas) = 0 THEN Relatorio("N/A", "N/A", 0, "N/A")
        ELSE Relatorio(strftime(CHOOSE d \in periodos : \A e \in periodos : d <= e),
                       strftime(Maximo(Coluna(linhas, "periodo"))),
                       Soma(Coluna(linhas, "focos"), 1, Len(linhas)),
                       tendencia_da_serie(linhas))

-----------------------------------------------------------------------------
(* monitoramento-queimadas/coleta/utils_coleta.py, coleta.py *)

\* The answer of the server to a request: "ok" (a non-empty body), "vazio"
\* (status 200 with an empty body) or "erro" (a RequestException: timeout,
\* connection error, HTTP error status).  When the stream of answers is
\* over the server is down.
Respostas == {"ok", "vazio", "erro"}
Resposta(rede, t) == IF t <= Len(rede) THEN rede[t] ELSE "erro"

\* what a call of baixar_arquivo leaves: the value returned, the answers
\* its requests got, and the file it wrote ("nada" when no file was opened)
Baixado(sucesso, pedidos, gravado) ==
    [sucesso |-> sucesso, pedidos |-> pedidos, gravado |-> gravado]

\* for tentativa in range(1, tentativas + 1): a non-empty file returns True,
\* an empty one returns False at once, a RequestException goes on to the
\* next attempt (False after the last one)
RECURSIVE baixar_arquivo(_, _, _)
baixar_arquivo(rede, tentativa, tentativas) ==
    IF tentativa > tentativas THEN Baixado(FALSE, <<>>, "nada")
    ELSE IF Resposta(rede, tentativa) = "ok" THEN Baixado(TRUE, <<"ok">>, "valido")
    ELSE IF Resposta(rede, tentativa) = "vazio" THEN Baixado(FALSE, <<"vazio">>, "vazio")
    ELSE IF tentativa = tentativas THEN Baixado(FALSE, <<"erro">>, "nada")
    ELSE LET r == baixar_arquivo(rede, tentativa + 1, tentativas)
         IN  Baixado(r.sucesso, <<"erro">> \o r.pedidos, r.gravado)

\* os.path.exists(caminho_saida) and validar_arquivo(caminho_saida): the
\* file of a day is "ausente", "vazio" or "valido"
validar_arquivo(disco, dia) == disco[dia] = "valido"

\* the days of a loop `while data_atual < data_fim`
intervalo_aberto(data_inicio, data_fim) ==
    [i \in 1..(data_fim - data_inicio) |-> data_inicio + i - 1]
\* the days of the loop `while data_atual <= data_fim`
intervalo(data_inicio, data_fim) ==
    [i \in 1..(data_fim - data_inicio + 1) |-> data_inicio + i - 1]

\* what a call of coletar_dados leaves: the days visited, the days a
\* download was attempted for, the paths returned (as days), the answers
\* not yet consumed and the files on disk
Coletado(visitados, baixados, arquivos, rede, disco) ==
    [visitados |-> visitados, baixados |-> baixados, arquivos |-> arquivos,
     rede |-> rede, disco |-> disco]

\* the loop over the days, from the state c the earlier days left
RECURSIVE coletar_dias(_, _)
coletar_dias(dias, c) ==
    IF Len(dias) = 0 THEN c
    ELSE LET dia == Head(dias)
             b   == baixar_arquivo(c.rede, 1, 3)
         IN  IF validar_arquivo(c.disco, dia)
             THEN coletar_dias(Tail(dias),
                      Coletado(Append(c.visitados, dia), c.baixados,
                               Append(c.arquivos, dia), c.rede, c.disco))
             ELSE coletar_dias(Tail(dias),
                      Coletado(Append(c.visitados, dia), Append(c.baixados, dia),
                               IF b.sucesso THEN Append(c.arquivos, dia) ELSE c.arquivos,
                               SubSeq(c.rede, Len(b.pedidos) + 1, Len(c.rede)),
                               IF b.gravado = "nada" THEN c.disco
                               ELSE [c.disco EXCEPT ![dia] = b.gravado]))

coletar_dados(data_inicio, data_fim, rede, disco) ==
    coletar_dias(intervalo(data_inicio, data_fim),
                 Coletado(<<>>, <<>>, <<>>, rede, disco))

-----------------------------------------------------------------------------
(* src/coleta/utils_coleta.py *)

\* the bounding box of every state, in hundredths of a degree
COORDENADAS_UF ==
    "AC" :> [lat |-> <<-1114, -711>>, lon |-> <<-7400, -6662>>] @@
    "AL" :> [lat |-> <<-1050, -881>>, lon |-> <<-3824, -3515>>] @@
    "AM" :> [lat |-> <<-949, 225>>, lon |-> <<-7380, -5609>>] @@
    "AP" :> [lat |-> <<-123, 444>>, lon |-> <<-5487, -4987>>] @@
    "BA" :> [lat |-> <<-1834, -853>>, lon |-> <<-4661, -3734>>] @@
    "CE" :> [lat |-> <<-786, -278>>, lon |-> <<-4142, -3725>>] @@
    "DF" :> [lat |-> <<-1605, -1550>>, lon |-> <<-4825, -4733>>] @@
    "ES" :> [lat |-> <<-2130, -1789>>, lon |-> <<-4188, -3986>>] @@
    "GO" :> [lat |-> <<-1947, -1239>>, lon |-> <<-5325, -4590>>] @@
    "MA" :> [lat |-> <<-1026, -105>>, lon |-> <<-4873, -4179>>] @@
    "MG" :> [lat |-> <<-2292, -1423>>, lon |-> <<-5105, -3985>>] @@
    "MS" :> [lat |-> <<-2407, -1716>>, lon |-> <<-5817, -5092>>] @@
    "MT" :> [lat |-> <<-1804, -735>>, lon |-> <<-6160, -5023>>] @@
    "PA" :> [lat |-> <<-984, 259>>, lon |-> <<-5889, -4606>>] @@
    "PB" :> [lat |-> <<-828, -602>>, lon |-> <<-3877, -3479>>] @@
    "PE" :> [lat |-> <<-948, -715>>, lon |-> <<-4135, -3482>>] @@
    "PI" :> [lat |-> <<-1092, -274>>, lon |-> <<-4599, -4037>>] @@
    "PR" :> [lat |-> <<-2672, -2251>>, lon |-> <<-5462, -4802>>] @@
    "RJ" :> [lat |-> <<-2337, -2076>>, lon |-> <<-4489, -4096>>] @@
    "RN" :> [lat |-> <<-698, -483>>, lon |-> <<-3858, -3496>>] @@
    "RO" :> [lat |-> <<-1369, -796>>, lon |-> <<-6681, -5977>>] @@
    "RR" :> [lat |-> <<-158, 527>>, lon |-> <<-6482, -5889>>] @@
    "RS" :> [lat |-> <<-3375, -2708>>, lon |-> <<-5764, -4971>>] @@
    "SC" :> [lat |-> <<-2935, -2595>>, lon |-> <<-5384, -4835>>] @@
    "SE" :> [lat |-> <<-1157, -951>>, lon |-> <<-3824, -3639>>] @@
    "SP" :> [lat |-> <<-2531, -1978>>, lon |-> <<-5311, -4416>>] @@
    "TO" :> [lat |-> <<-1346, -522>>, lon |-> <<-5073, -4570>>]

\* sorted(list(COORDENADAS_UF.keys()))
ufs == <<"AC", "AL", "AM", "AP", "BA", "CE", "DF", "ES", "GO", "MA", "MG", "MS", "MT", "PA", "PB", "PE", "PI", "PR",
        "RJ", "RN", "RO", "RR", "RS", "SC", "SE", "SP", "TO">>

\* np.random: every seed gives one stream of draws; the draw made for the
\* point j (0: the number of points) of the state number k on a date is a
\* value of 0..15, 'qual' telling latitude, longitude and biome apart
Sementes == 0..15
Sortear(semente, data, k, j, qual) ==
    (5 * semente + 3 * data + 7 * k + 11 * j + 13 * qual) % Cardinality(Sementes)

\* np.random.randint(0, 6)
n_pontos_de_zero(x) == x % 6

\* max(2, np.random.randint(2, 8))
n_pontos(x) == IF 2 + (x % 6) > 2 THEN 2 + (x % 6) ELSE 2

\* np.random.uniform(lo, hi): a value in [lo, hi)
uniform(limites, x) ==
    limites[1] + ((limites[2] - limites[1]) * x) \div Cardinality(Sementes)

\* the biome of a state; the states of the south draw it (random() > 0.3)
bioma_da_uf(uf, x) ==
    IF uf \in {"AM", "AC", "RR", "RO", "PA", "AP", "TO", "MT", "MA"} THEN "Amazonia"
    ELSE IF uf \in {"PI", "CE", "RN", "PB", "PE", "AL", "SE", "BA"} THEN "Caatinga"
    ELSE IF uf \in {"GO", "DF", "MG", "SP", "MS"} THEN "Cerrado"
    ELSE IF uf \in {"PR", "SC", "RS"}
    THEN (IF 10 * x > 3 * Cardinality(Sementes) THEN "Mata Atlantica" ELSE "Pampa")
    ELSE "Mata Atlantica"

\* the points generated for one state on one date
Pontos(semente, data, k) ==
    [j \in 1..n_pontos(Sortear(semente, data, k, 0, 0)) |->
        [data      |-> data,
         latitude  |-> uniform(COORDENADAS_UF[ufs[k]].lat, Sortear(semente, data, k, j, 1)),
         longitude |-> uniform(COORDENADAS_UF[ufs[k]].lon, Sortear(semente, data, k, j, 2)),
         uf        |-> ufs[k],
         bioma     |-> bioma_da_uf(ufs[k], Sortear(semente, data, k, j, 3))]]

\* the loop over the dates and, for each date, over the states: the rows of
\* the (date, state) pairs number primeiro..ultimo, in order
RECURSIVE Dados(_, _, _, _)
Dados(semente, data_inicio, primeiro, ultimo) ==
    IF primeiro > ultimo THEN <<>>
    ELSE IF primeiro = ultimo
    THEN Pontos(semente, data_inicio + ((primeiro - 1) \div Len(ufs)),
                ((primeiro - 1) % Len(ufs)) + 1)
    ELSE LET meio == (primeiro + ultimo) \div 2
         IN  Dados(semente, data_inicio, primeiro, meio)
               \o Dados(semente, data_inicio, meio + 1, ultimo)

\* an empty range leaves a DataFrame without columns, df['uf'] raises and
\* the except block answers None
coletar_dados_inpe(data_inicio, data_fim, semente) ==
    IF data_inicio > data_fim THEN None
    ELSE Retorno("DataFrame",
                 Dados(semente, data_inicio, 1, (data_fim - data_inicio + 1) * Len(ufs)),
                 SemEstatisticas)

-----------------------------------------------------------------------------
(* Observation tables *)

\* the dates observations are drawn from: 2024-01-01, 01-07, 01-08, 02-01,
\* 02-29, 2025-01-01, then every 40 days
DatasBase == <<0, 6, 7, 31, 59, 366>>
Dia(k) == IF k <= Len(DatasBase) THEN DatasBase[k]
          ELSE DatasBase[Len(DatasBase)] + 40 * (k - Len(DatasBase))

Obs(d, uf, bioma) == [data |-> d, uf |-> uf, bioma |-> bioma, periodo |-> Ausente]

RECURSIVE Repetir(_, _)
Repetir(x, n) == IF n = 0 THEN <<>> ELSE <<x>> \o Repetir(x, n - 1)

\* every table of at most MaxLinhas rows over the first MaxLinhas dates and NaT
TabelasCurtas ==
    UNION { [1..n -> {Obs(d, "SP", "Cerrado") : d \in {Dia(k) : k \in 1..MaxLinhas} \cup {NaT}}]
            : n \in 0..MaxLinhas }

\* one observation on each of the first n dates, extra more on date number p
RECURSIVE TabelaPico(_, _, _)
TabelaPico(n, p, extra) ==
    IF n = 0 THEN <<>>
    ELSE TabelaPico(n - 1, p, extra)
           \o Repetir(Obs(Dia(n), "SP", "Cerrado"), IF n = p THEN 1 + extra ELSE 1)

TabelasPico ==
    UNION { { TabelaPico(n, p, extra) : p \in 1..n, extra \in 0..MaxExtra }
            : n \in 1..NumDatas }

\* every table of at most MaxLinhas rows over three observations of two
\* states and two biomes
ObsPequenas == { Obs(Dia(1), "AM", "Amazonia"), Obs(Dia(2), "AM", "Amazonia"),
                 Obs(Dia(2), "SP", "Cerrado") }
TabelasPequenas == UNION { [1..n -> ObsPequenas] : n \in 0..MaxLinhas }

\* the observations of one state on the first n dates: one a day, primeiro
\* on the first date and ultimo on the last
ContagemA(n, primeiro, ultimo, k) ==
    IF k = n THEN ultimo ELSE IF k = 1 THEN primeiro ELSE 1

\* and those of a second state of the same biome: none, one on the last
\* date only, one on the first date only, or one a day
PadroesB == {"nenhum", "hoje", "passado", "sempre"}
ContagemB(n, padrao, k) ==
    CASE padrao = "nenhum"  -> 0
      [] padrao = "hoje"    -> IF k = n THEN 1 ELSE 0
      [] padrao = "passado" -> IF k = 1 /\ n > 1 THEN 1 ELSE 0
      [] OTHER              -> 1

RECURSIVE LinhasRegiao(_, _, _, _, _)
LinhasRegiao(n, primeiro, ultimo, padrao, k) ==
    IF k = 0 THEN <<>>
    ELSE LinhasRegiao(n, primeiro, ultimo, padrao, k - 1)
           \o Repetir(Obs(Dia(k), "AM", "Amazonia"), ContagemA(n, primeiro, ultimo, k))
           \o Repetir(Obs(Dia(k), "PA", "Amazonia"), ContagemB(n, padrao, k))

TabelaRegiao(n, primeiro, ultimo, padrao) == LinhasRegiao(n, primeiro, ultimo, padrao, n)

TabelasRegiao ==
    { TabelaRegiao(n, primeiro, ultimo, padrao) :
          n \in 0..NumDatas, primeiro \in 1..(1 + MaxExtra),
          ultimo \in 1..(1 + MaxExtra), padrao \in PadroesB }

\* the daily series of one observation a day on the first n dates, primeiro
\* on the first and ultimo on the last
TabelasSerie ==
    { TabelaRegiao(n, primeiro, ultimo, "nenhum") :
          n \in 0..NumDatas, primeiro \in 1..(1 + MaxExtra),
          ultimo \in 1..(1 + MaxExtra) }

\* the table with a given number of observations of each of two regions
TabelaDeContagens(uf1, n1, uf2, n2) ==
    Repetir(Obs(Dia(1), uf1, "Amazonia"), n1) \o Repetir(Obs(Dia(1), uf2, "Cerrado"), n2)

\* observations of three states and two biomes, some without the state,
\* the biome or both
ObsEspaciais ==
    { Obs(Dia(1), "AM", "Amazonia"), Obs(Dia(1), "PA", "Amazonia"),
      Obs(Dia(1), "SP", "Cerrado"), Obs(Dia(1), "", "Cerrado"),
      Obs(Dia(1), "AM", ""), Obs(Dia(1), "", "") }
TabelasEspaciais == UNION { [1..n -> ObsEspaciais] : n \in 0..MaxLinhas }

\* a row of a raw file
Bruta(uf, latitude, longitude) ==
    [data |-> Dia(1), uf |-> uf, bioma |-> "Cerrado", periodo |-> Ausente,
     latitude |-> latitude, longitude |-> longitude]

\* rows with a valid, an invalid, a lower-case and a missing state code, and
\* with coordinates on and just off the edges of the envelope, missing, or
\* not numbers
RegistrosBrutos ==
    { Bruta("SP", Num(-675000), Num(-695860)),
      Bruta("AM", Num(105450), Num(-1479800)),
      Bruta("XX", Num(-675000), Num(-695860)),
      Bruta("", Num(-675000), Num(-695860)),
      Bruta("sp", Num(-675000), Num(-695860)),
      Bruta("SP", Num(-675002), Num(-695860)),
      Bruta("SP", Num(105452), Num(-695860)),
      Bruta("SP", Num(-675000), Num(-695858)),
      Bruta("AM", Num(-675000), Num(-1479802)),
      Bruta("SP", Nulo, Num(-695860)),
      Bruta("AM", Num(105450), Nulo),
      Bruta("SP", Texto, Num(-695860)) }

\* the raw file: its rows, whether it has the columns the cleaning reads,
\* and whether its output file exists
ArquivoBruto(linhas, com_colunas, tratado) ==
    [linhas |-> linhas, com_colunas |-> com_colunas, tratado |-> tratado]
SemBruto == ArquivoBruto(<<>>, TRUE, FALSE)

ArquivosBrutos ==
    {ArquivoBruto(linhas, TRUE, FALSE) :
         linhas \in UNION {[1..n -> RegistrosBrutos] : n \in 0..MaxBrutas}}
      \cup {ArquivoBruto(<<>>, FALSE, FALSE)}

Periodos == {"dia", "semana", "mes", "ano", "hora"}
Janelas == {0, 2, 7}

\* sample ceilings of a configuration; Ausente: the key is missing
Limites == {Ausente, 1, 2}

-----------------------------------------------------------------------------
(* State machine *)

\* no pipeline run
SemExecucoes == <<>>

\* The stages of a pipeline run, in the order main calls them, and the
\* --skip-<flag> argument that guards each call.
Etapas == <<"coleta", "tratamento", "analise_temporal", "analise_espacial",
            "alertas", "relatorios">>
Flags == {"coleta", "tratamento", "analise", "alertas", "relatorios"}
FlagDe(etapa) ==
    IF etapa \in {"analise_temporal", "analise_espacial"} THEN "analise" ELSE etapa
NumeroDe(etapa) == CHOOSE i \in DOMAIN Etapas : Etapas[i] = etapa

\* --skip-coleta suppressing the cleaning stage as well
pulada_com_a_coleta(etapa, skip) ==
    \/ FlagDe(etapa) \in skip
    \/ etapa = "tratamento" /\ "coleta" \in skip

\* `if not args.skip_<flag>` is false
pulada(etapa, skip) == FlagDe(etapa) \in skip

\* the stage main reaches after the stage number n: the next one that is
\* not skipped, "fim" when there is none
proxima(skip, n) ==
    LET restantes == {i \in DOMAIN Etapas : i > n /\ ~pulada(Etapas[i], skip)}
    IN  IF restantes = {} THEN "fim"
        ELSE Etapas[CHOOSE i \in restantes : \A j \in restantes : i <= j]

\* How the call of a stage ends: "ok"; "falha", an error inside the stage,
\* which its main catches, logs and answers with None or []; "excecao", an
\* exception that reaches the pipeline (the import of the stage's module).
Resultados == {"ok", "falha", "excecao"}

\* A pipeline run: the observations of its input window, its arguments, the
\* answer of check_dependencies, how each stage will end, its position, the
\* stages it has called, whether its raw and cleaned files are on disk, what
\* its alert stage read and emitted, its report and its exit code.
Execucao(janela, skip, dependencias, resultados) ==
    [janela |-> janela, skip |-> skip, dependencias |-> dependencias,
     resultados |-> resultados, pc |-> "inicio", iniciadas |-> <<>>,
     coletado |-> FALSE, tratado |-> FALSE,
     lidos |-> [serie_temporal |-> None, focos_por_uf |-> None, focos_por_bioma |-> None],
     alertas |-> <<>>, relatorio |-> None, codigo |-> Ausente]

\* the run after the call of a stage: an exception ends it with exit code
\* 1, otherwise main goes on to the next stage and returns 0 after the last
Terminar(run, etapa) ==
    IF run.resultados[etapa] = "excecao"
    THEN [run EXCEPT !.pc = "fim", !.codigo = 1, !.iniciadas = Append(@, etapa)]
    ELSE [run EXCEPT !.pc = proxima(run.skip, NumeroDe(etapa)),
                     !.codigo = IF proxima(run.skip, NumeroDe(etapa)) = "fim"
                                THEN 0 ELSE @,
                     !.iniciadas = Append(@, etapa)]
\* the collector: the range asked for, the state of the random generator,
\* the answers the server will give, the file of every day on disk, and
\* what the last call did (the answers its requests got, the days visited,
\* the days a download was attempted for)
Coleta(data_inicio, data_fim, semente) ==
    [data_inicio |-> data_inicio, data_fim |-> data_fim, semente |-> semente,
     rede |-> <<>>, disco |-> [dia \in 0..MaxDiasDeColeta |-> "ausente"],
     pedidos |-> <<>>, visitados |-> <<>>, baixados |-> <<>>]
\* the collector before any call
SemColeta == Coleta(0, 0, 0)

SemAgregados == [serie_temporal |-> None, focos_por_uf |-> None, focos_por_bioma |-> None]
SemConfig ==
    [global    |-> [diario |-> Ausente, semanal |-> Ausente],
     por_uf    |-> [AM |-> Ausente, PA |-> Ausente, SP |-> Ausente, default |-> Ausente],
     por_bioma |-> [Amazonia |-> Ausente, Cerrado |-> Ausente, default |-> Ausente]]

\* the built-in thresholds carregar_config falls back to
config_padrao ==
    [global    |-> [diario |-> 1000, semanal |-> 5000],
     por_uf    |-> [AM |-> 200, PA |-> 300, SP |-> Ausente, default |-> 100],
     por_bioma |-> [Amazonia |-> 500, Cerrado |-> 300, default |-> 100]]

\* the file at caminho_config: estado is what open() and json.load() meet
\* ("ausente": no such file, "ilegivel": it cannot be read, "malformado": it
\* is not JSON, "valido": it parses, to conteudo); com_diretorio: the path
\* has a directory part; gravavel: the file can be created or rewritten
Arquivo(estado, com_diretorio, gravavel, conteudo) ==
    [estado |-> estado, com_diretorio |-> com_diretorio, gravavel |-> gravavel,
     conteudo |-> conteudo]
SemArquivo == Arquivo("ausente", TRUE, TRUE, SemConfig)

\* what a call of carregar_config leaves: the dict returned or the exception
\* raised, the file, and the levels of the records logged
Carregado(tipo, limites, arquivo, registros) ==
    [tipo |-> tipo, config |-> limites, arquivo |-> arquivo, log |-> registros]

\* open() or json.load() raising leads to the except block, which logs the
\* error, builds the defaults and saves them to the file before returning
\* them: os.makedirs raises on a path without a directory part, open(.., 'w')
\* on a file that cannot be written
carregar_config(arquivo) ==
    IF arquivo.estado = "valido"
    THEN Carregado("config", arquivo.conteudo, arquivo, <<"info">>)
    ELSE IF ~arquivo.com_diretorio \/ ~arquivo.gravavel
    THEN Carregado("excecao", SemConfig, arquivo, <<"error">>)
    ELSE Carregado("config", config_padrao,
                   Arquivo("valido", arquivo.com_diretorio, arquivo.gravavel,
                           config_padrao),
                   <<"error", "warning">>)
Chamada(op, periodo, janela, data_ref) ==
    [op |-> op, periodo |-> periodo, janela |-> janela, data_ref |-> data_ref]
NenhumaChamada == Chamada("nenhuma", "", 0, NaT)

AnalisarSerieTemporal(periodo, janela) ==
    /\ chamada' = Chamada("analisar_serie_temporal", periodo, janela, NaT)
    /\ retorno' = analisar_serie_temporal(df, periodo, janela)
    /\ df' = IF Len(df) = 0 THEN df ELSE ComPeriodo(df, periodo)
    /\ UNCHANGED <<agregados, config, arquivo_config, log, bruto,
                   execucoes, arquivo_alertas, coleta>>

GerarSerieTemporal ==
    /\ chamada' = Chamada("gerar_serie_temporal", "", 0, NaT)
    /\ retorno' = gerar_serie_temporal(df)
    /\ UNCHANGED <<df, agregados, config, arquivo_config, log, bruto,
                   execucoes, arquivo_alertas, coleta>>

AnalisarPorUf ==
    /\ chamada' = Chamada("analisar_por_uf", "", 0, NaT)
    /\ retorno' \in analisar_por_uf(df)
    /\ UNCHANGED <<df, agregados, config, arquivo_config, log, bruto,
                   execucoes, arquivo_alertas, coleta>>

AnalisarPorBioma ==
    /\ chamada' = Chamada("analisar_por_bioma", "", 0, NaT)
    /\ retorno' \in analisar_por_bioma(df)
    /\ UNCHANGED <<df, agregados, config, arquivo_config, log, bruto,
                   execucoes, arquivo_alertas, coleta>>

VerificarAlertas ==
    /\ chamada' = Chamada("verificar_alertas", "", 0, NaT)
    /\ retorno' = verificar_alertas(agregados.serie_temporal, agregados.focos_por_uf,
                                    agregados.focos_por_bioma, config)
    /\ UNCHANGED <<df, agregados, config, arquivo_config, log, bruto,
                   execucoes, arquivo_alertas, coleta>>

GerarAlertaPorRegiao(data_ref) ==
    /\ chamada' = Chamada("gerar_alerta_por_regiao", "", 0, data_ref)
    /\ retorno' = gerar_alerta_por_regiao(df, data_ref)
    /\ UNCHANGED <<df, agregados, config, arquivo_config, log, bruto,
                   execucoes, arquivo_alertas, coleta>>

\* main: config = carregar_config(caminho_config); an exception leaves main
\* without a configuration
CarregarConfig ==
    LET c == carregar_config(arquivo_config)
    IN  /\ chamada' = Chamada("carregar_config", "", 0, NaT)
        /\ retorno' = Retorno(c.tipo, <<>>, SemEstatisticas)
        /\ config' = c.config
        /\ arquivo_config' = c.arquivo
        /\ log' = c.log
        /\ UNCHANGED <<df, agregados, bruto,
                       execucoes, arquivo_alertas, coleta>>

\* coletar_dados_inpe(data_inicio, data_fim): the generator moves on
ColetarDadosInpe ==
    /\ chamada' = Chamada("coletar_dados_inpe", "", 0, NaT)
    /\ retorno' = coletar_dados_inpe(coleta.data_inicio, coleta.data_fim, coleta.semente)
    /\ coleta' = [coleta EXCEPT
                     !.semente = IF coleta.data_inicio > coleta.data_fim THEN @
                                 ELSE (@ + 1) % Cardinality(Sementes)]
    /\ UNCHANGED <<df, agregados, config, arquivo_config, log, bruto,
                   execucoes, arquivo_alertas>>

\* baixar_arquivo(url, caminho_saida, tentativas=tentativas) for the file of
\* the day data_inicio
BaixarArquivo(tentativas) ==
    LET b == baixar_arquivo(coleta.rede, 1, tentativas)
    IN  /\ chamada' = Chamada("baixar_arquivo", "", tentativas, NaT)
        /\ retorno' = Retorno(IF b.sucesso THEN "True" ELSE "False", <<>>, SemEstatisticas)
        /\ coleta' = [coleta EXCEPT
                         !.rede = SubSeq(@, Len(b.pedidos) + 1, Len(@)),
                         !.disco = IF b.gravado = "nada" THEN @
                                   ELSE [@ EXCEPT ![coleta.data_inicio] = b.gravado],
                         !.pedidos = b.pedidos,
                         !.visitados = <<>>,
                         !.baixados = <<>>]
        /\ UNCHANGED <<df, agregados, config, arquivo_config, log, bruto,
                       execucoes, arquivo_alertas>>

\* coletar_dados(data_inicio, data_fim): the list returned holds the paths,
\* here the days
ColetarDados ==
    LET c == coletar_dados(coleta.data_inicio, coleta.data_fim, coleta.rede, coleta.disco)
    IN  /\ chamada' = Chamada("coletar_dados", "", 0, NaT)
        /\ retorno' = Retorno("lista", c.arquivos, SemEstatisticas)
        /\ coleta' = [coleta EXCEPT
                         !.rede = c.rede,
                         !.disco = c.disco,
                         !.pedidos = SubSeq(coleta.rede, 1, Len(coleta.rede) - Len(c.rede)),
                         !.visitados = c.visitados,
                         !.baixados = c.baixados]
        /\ UNCHANGED <<df, agregados, config, arquivo_config, log, bruto,
                       execucoes, arquivo_alertas>>

\* alertas.main: the configuration is loaded, the aggregate files are read,
\* the rules are evaluated and a non-empty list is appended to the log; any
\* exception ends the run with an empty list
alertas_main(arquivo, lidos, registro) ==
    LET c == carregar_config(arquivo)
        alertas == IF c.tipo = "excecao" THEN <<>>
                   ELSE verificar_alertas(lidos.serie_temporal, lidos.focos_por_uf,
                                          lidos.focos_por_bioma, c.config).linhas
    IN  [carregado |-> c,
         alertas   |-> alertas,
         registro  |-> ArquivoDeAlertas(registro.existe \/ Len(alertas) > 0,
                           salvar_alertas_arquivo(registro.conteudo, alertas,
                                                  registro.hora + 1),
                           registro.hora + 1, alertas)]

\* the table of a (table, statistics) pair, as saved and loaded again
SerieDe(ret) == IF ret.tipo = "None" THEN None
                ELSE Retorno("DataFrame", ret.linhas, SemEstatisticas)

\* main: check_dependencies; a failure returns 1 before any stage
VerificarDependencias(e) ==
    /\ execucoes[e].pc = "inicio"
    /\ execucoes' = [execucoes EXCEPT ![e] =
          IF ~execucoes[e].dependencias THEN [@ EXCEPT !.pc = "fim", !.codigo = 1]
          ELSE [@ EXCEPT !.pc = proxima(execucoes[e].skip, 0),
                         !.codigo = IF proxima(execucoes[e].skip, 0) = "fim"
                                    THEN 0 ELSE @]]
    /\ UNCHANGED <<df, agregados, config, chamada, retorno, arquivo_config, log, bruto,
                   arquivo_alertas, coleta>>

\* main: coleta_main(...): the raw file of the run's window is on disk
ExecutarColeta(e) ==
    /\ execucoes[e].pc = "coleta"
    /\ execucoes' = [execucoes EXCEPT ![e] =
          [Terminar(@, "coleta") EXCEPT
              !.coletado = @ \/ execucoes[e].resultados["coleta"] = "ok"]]
    /\ UNCHANGED <<df, agregados, config, chamada, retorno, arquivo_config, log, bruto,
                   arquivo_alertas, coleta>>

\* the runs whose raw file is on disk and has no cleaned file yet
PorTratar == {i \in DOMAIN execucoes : execucoes[i].coletado /\ ~execucoes[i].tratado}

RECURSIVE Juntar(_, _)
Juntar(janelas, n) == IF n = 0 THEN <<>> ELSE Juntar(janelas, n - 1) \o janelas[n]

\* main: tratamento_main(): every raw file of the input directory that has
\* no cleaned file is cleaned into the shared directory of cleaned files
ExecutarTratamento(e) ==
    /\ execucoes[e].pc = "tratamento"
    /\ LET feito == execucoes[e].resultados["tratamento"] = "ok"
       IN  /\ df' = IF feito
                    THEN df \o Juntar([i \in DOMAIN execucoes |->
                                          IF i \in PorTratar THEN execucoes[i].janela
                                          ELSE <<>>], Len(execucoes))
                    ELSE df
           /\ execucoes' = [i \in DOMAIN execucoes |->
                 [(IF i = e THEN Terminar(execucoes[i], "tratamento") ELSE execucoes[i])
                    EXCEPT !.tratado = @ \/ (feito /\ i \in PorTratar)]]
    /\ UNCHANGED <<agregados, config, chamada, retorno, arquivo_config, log, bruto,
                   arquivo_alertas, coleta>>

\* main: analise_temporal_main(): every cleaned file is loaded, and the
\* series is written to serie_temporal_dia.csv
ExecutarAnaliseTemporal(e) ==
    /\ execucoes[e].pc = "analise_temporal"
    /\ agregados' =
          IF execucoes[e].resultados["analise_temporal"] = "ok" /\ Len(df) > 0
          THEN [agregados EXCEPT
                   !.serie_temporal = SerieDe(analisar_serie_temporal(df, "dia", 7))]
          ELSE agregados
    /\ execucoes' = [execucoes EXCEPT ![e] = Terminar(@, "analise_temporal")]
    /\ UNCHANGED <<df, config, chamada, retorno, arquivo_config, log, bruto,
                   arquivo_alertas, coleta>>

\* main: analise_espacial_main(): every cleaned file is loaded, and the two
\* regional tables are written to focos_por_uf.csv and focos_por_bioma.csv
ExecutarAnaliseEspacial(e) ==
    /\ execucoes[e].pc = "analise_espacial"
    /\ IF execucoes[e].resultados["analise_espacial"] = "ok" /\ Len(df) > 0
       THEN \E por_uf \in analisar_por_uf(df), por_bioma \in analisar_por_bioma(df) :
               agregados' = [agregados EXCEPT !.focos_por_uf = por_uf,
                                               !.focos_por_bioma = por_bioma]
       ELSE agregados' = agregados
    /\ execucoes' = [execucoes EXCEPT ![e] = Terminar(@, "analise_espacial")]
    /\ UNCHANGED <<df, config, chamada, retorno, arquivo_config, log, bruto,
                   arquivo_alertas, coleta>>

\* main: alertas_main(): the aggregate files are read and evaluated, and
\* the alerts are appended to the log
ExecutarAlertas(e) ==
    /\ execucoes[e].pc = "alertas"
    /\ LET m == alertas_main(arquivo_config, agregados, arquivo_alertas)
       IN  IF execucoes[e].resultados["alertas"] = "ok"
           THEN /\ execucoes' = [execucoes EXCEPT ![e] =
                      [Terminar(@, "alertas") EXCEPT !.lidos = agregados,
                                                      !.alertas = m.alertas]]
                /\ config' = m.carregado.config
                /\ arquivo_config' = m.carregado.arquivo
                /\ log' = m.carregado.log
                /\ arquivo_alertas' = m.registro
           ELSE /\ execucoes' = [execucoes EXCEPT ![e] = Terminar(@, "alertas")]
                /\ UNCHANGED <<config, arquivo_config, log, arquivo_alertas>>
    /\ UNCHANGED <<df, agregados, chamada, retorno, bruto, coleta>>

\* the report of a run: what it shows of the series, and the alert list
\* loaded from the log
relatorio_main(serie_temporal, registro) ==
    [gerar_relatorio_html(serie_temporal) EXCEPT
        !.linhas = carregar_alertas(registro.existe, registro.conteudo)]

\* main: relatorio_main(): the series file and the alert log are read
ExecutarRelatorios(e) ==
    /\ execucoes[e].pc = "relatorios"
    /\ execucoes' = [execucoes EXCEPT ![e] =
          [Terminar(@, "relatorios") EXCEPT
              !.relatorio = IF execucoes[e].resultados["relatorios"] = "ok"
                            THEN relatorio_main(agregados.serie_temporal, arquivo_alertas)
                            ELSE @]]
    /\ UNCHANGED <<df, agregados, config, chamada, retorno, arquivo_config, log, bruto,
                   arquivo_alertas, coleta>>

\* one step of the run e
Passo(e) ==
    \/ VerificarDependencias(e)
    \/ ExecutarColeta(e)
    \/ ExecutarTratamento(e)
    \/ ExecutarAnaliseTemporal(e)
    \/ ExecutarAnaliseEspacial(e)
    \/ ExecutarAlertas(e)
    \/ ExecutarRelatorios(e)

\* alertas.main
AlertasMain ==
    LET m == alertas_main(arquivo_config, agregados, arquivo_alertas)
    IN  /\ arquivo_alertas.hora < MaxBlocos
        /\ chamada' = Chamada("alertas_main", "", 0, NaT)
        /\ retorno' = Retorno("lista", m.alertas, SemEstatisticas)
        /\ config' = m.carregado.config
        /\ arquivo_config' = m.carregado.arquivo
        /\ log' = m.carregado.log
        /\ arquivo_alertas' = m.registro
        /\ UNCHANGED <<df, agregados, bruto, execucoes, coleta>>

\* relatorio.carregar_dados_analise: the alert list read back from the log
CarregarAlertas ==
    /\ chamada' = Chamada("carregar_dados_analise", "", 0, NaT)
    /\ retorno' = Retorno("lista",
                          carregar_alertas(arquivo_alertas.existe, arquivo_alertas.conteudo),
                          SemEstatisticas)
    /\ UNCHANGED <<df, agregados, config, arquivo_config, log, bruto,
                   execucoes, arquivo_alertas, coleta>>

\* relatorio.main: the series loaded from the analyses directory goes into
\* the report
GerarRelatorioHtml ==
    /\ chamada' = Chamada("gerar_relatorio_html", "", 0, NaT)
    /\ retorno' = gerar_relatorio_html(agregados.serie_temporal)
    /\ UNCHANGED <<df, agregados, config, arquivo_config, log, bruto,
                   execucoes, arquivo_alertas, coleta>>

\* tratamento.main: tratar_arquivo(arquivo, output_dir, force); the analyses
\* then load the output file
TratarArquivo(force) ==
    LET t == tratar_arquivo(bruto, df, force)
    IN  /\ chamada' = Chamada("tratar_arquivo", IF force THEN "force" ELSE "", 0, NaT)
        /\ retorno' = Retorno(t.tipo, <<>>, SemEstatisticas)
        /\ df' = t.limpo
        /\ bruto' = [bruto EXCEPT !.tratado = t.existe]
        /\ UNCHANGED <<agregados, config, arquivo_config, log,
                       execucoes, arquivo_alertas, coleta>>

\* the aggregates of one observation table
AgregadosDe(tabela) ==
    [serie_temporal  : {SerieDe(analisar_serie_temporal(tabela, "dia", 7))},
     focos_por_uf    : analisar_por_uf(tabela),
     focos_por_bioma : analisar_por_bioma(tabela)]

TabelaVazia == Retorno("DataFrame", <<>>, SemEstatisticas)
AgregadosVazios ==
    [serie_temporal |-> TabelaVazia, focos_por_uf |-> TabelaVazia,
     focos_por_bioma |-> TabelaVazia]

Config(diario, semanal, uf_am, uf_default, bioma_amazonia, bioma_default) ==
    [global    |-> [diario |-> diario, semanal |-> semanal],
     por_uf    |-> [AM |-> uf_am, PA |-> Ausente, SP |-> Ausente, default |-> uf_default],
     por_bioma |-> [Amazonia |-> bioma_amazonia, Cerrado |-> Ausente,
                    default |-> bioma_default]]

NadaRetornado == Retorno("nada", <<>>, SemEstatisticas)

(* the whole pipeline over small tables *)

Init ==
    /\ df \in TabelasPequenas
    /\ agregados \in AgregadosDe(df) \cup (IF Len(df) = 0 THEN {AgregadosVazios} ELSE {})
    /\ config \in {Config(1, 2, 2, 1, 2, 1), Config(1, Ausente, 2, 1, 2, 1)}
    /\ chamada = NenhumaChamada
    /\ retorno = NadaRetornado
    /\ arquivo_config = SemArquivo
    /\ log = <<>>
    /\ bruto = SemBruto
    /\ execucoes = SemExecucoes
    /\ arquivo_alertas = SemAlertasSalvos
    /\ coleta = SemColeta

Next ==
    \/ \E periodo \in Periodos, janela \in Janelas : AnalisarSerieTemporal(periodo, janela)
    \/ GerarSerieTemporal
    \/ AnalisarPorUf
    \/ AnalisarPorBioma
    \/ VerificarAlertas
    \/ \E data_ref \in {NaT, Dia(1)} : GerarAlertaPorRegiao(data_ref)

Spec == Init /\ [][Next]_vars

(* the alert evaluator over aggregate tables and configurations *)

SeriesDeAlerta == {SerieDe(analisar_serie_temporal(t, "dia", 7)) : t \in TabelasSerie}
                    \cup {TabelaVazia}
TabelasPorUf ==
    UNION {analisar_por_uf(TabelaDeContagens("AM", n1, "SP", n2)) : n1, n2 \in 0..MaxFocos}
TabelasPorBioma ==
    UNION {analisar_por_bioma(TabelaDeContagens("AM", n1, "SP", n2)) : n1, n2 \in 0..MaxFocos}

\* the global rules over every series, the regional tables fixed
InitAlertasGlobais ==
    /\ agregados \in [serie_temporal  : SeriesDeAlerta,
                       focos_por_uf    : {None} \cup analisar_por_uf(TabelaDeContagens("AM", 2, "SP", 2)),
                       focos_por_bioma : {None}]
    /\ config \in {Config(d, s, 1, u, 1, 1) : d \in {Ausente, 1}, s \in {Ausente, 7},
                                              u \in {Ausente, 1}}

\* the regional rules over every regional table, the series fixed
InitAlertasRegionais ==
    /\ agregados \in [serie_temporal  : {None, SerieDe(analisar_serie_temporal(
                                              TabelaRegiao(2, 1, 2, "nenhum"), "dia", 7))},
                       focos_por_uf    : TabelasPorUf,
                       focos_por_bioma : TabelasPorBioma]
    /\ config \in {Config(d, 7, a, u, 2, b) : d \in {Ausente, 1}, a \in Limites,
                                              u \in Limites, b \in {Ausente, 1}}

InitAlertas ==
    /\ df = <<>>
    /\ InitAlertasGlobais \/ InitAlertasRegionais
    /\ chamada = NenhumaChamada
    /\ retorno = NadaRetornado
    /\ arquivo_config = SemArquivo
    /\ log = <<>>
    /\ bruto = SemBruto
    /\ execucoes = SemExecucoes
    /\ arquivo_alertas = SemAlertasSalvos
    /\ coleta = SemColeta

NextAlertas == VerificarAlertas

SpecAlertas == InitAlertas /\ [][NextAlertas]_vars

(* loading the configuration file, then evaluating the alerts with it *)

ConteudosDeArquivo ==
    {config_padrao}
      \cup {Config(d, s, a, u, 2, b) : d \in {Ausente, 1}, s \in {Ausente, 7},
                                       a \in Limites, u \in Limites, b \in {Ausente, 1}}

Arquivos ==
    {Arquivo("valido", c, g, conteudo) :
         c \in BOOLEAN, g \in BOOLEAN, conteudo \in ConteudosDeArquivo}
      \cup {Arquivo(e, c, g, SemConfig) :
               e \in {"ausente", "ilegivel", "malformado"}, c \in BOOLEAN, g \in BOOLEAN}

AgregadosDeConfig ==
    {[serie_temporal  |-> SerieDe(analisar_serie_temporal(
                              TabelaRegiao(n, 1, ultimo, "nenhum"), "dia", 7)),
      focos_por_uf    |-> por_uf,
      focos_por_bioma |-> por_bioma] :
         n \in {0, 2, NumDatas}, ultimo \in 1..(1 + MaxExtra),
         por_uf \in analisar_por_uf(TabelaDeContagens("AM", 2, "SP", 2)),
         por_bioma \in analisar_por_bioma(TabelaDeContagens("AM", 2, "SP", 2))}

InitConfig ==
    /\ df = <<>>
    /\ agregados \in AgregadosDeConfig
    /\ config = SemConfig
    /\ chamada = NenhumaChamada
    /\ retorno = NadaRetornado
    /\ arquivo_config \in Arquivos
    /\ log = <<>>
    /\ bruto = SemBruto
    /\ execucoes = SemExecucoes
    /\ arquivo_alertas = SemAlertasSalvos
    /\ coleta = SemColeta

NextConfig ==
    \/ CarregarConfig
    \/ (chamada.op = "carregar_config" /\ retorno.tipo = "config") /\ VerificarAlertas

SpecConfig == InitConfig /\ [][NextConfig]_vars

(* two days of observations of one state, aggregated and then evaluated *)

\* n1 observations of SP on 2024-01-01 followed by n2 on 2024-01-02
TabelaDeDoisDias(n1, n2) ==
    Repetir(Obs(0, "SP", "Cerrado"), n1) \o Repetir(Obs(1, "SP", "Cerrado"), n2)

\* the built-in thresholds with a ceiling of 8 for SP, and the same with the
\* global daily ceiling at 8 as well
ConfigsDeDoisDias ==
    {[config_padrao EXCEPT !.por_uf.SP = 8],
     [config_padrao EXCEPT !.por_uf.SP = 8, !.global.diario = 8]}

InitDoisDias ==
    /\ df \in {TabelaDeDoisDias(n1, n2) : n1 \in 0..10, n2 \in 0..5}
    /\ agregados \in AgregadosDe(df)
    /\ config \in ConfigsDeDoisDias
    /\ chamada = NenhumaChamada
    /\ retorno = NadaRetornado
    /\ arquivo_config = SemArquivo
    /\ log = <<>>
    /\ bruto = SemBruto
    /\ execucoes = SemExecucoes
    /\ arquivo_alertas = SemAlertasSalvos
    /\ coleta = SemColeta

NextDoisDias ==
    \/ AnalisarSerieTemporal("dia", 7)
    \/ AnalisarPorUf
    \/ AnalisarPorBioma
    \/ VerificarAlertas

SpecDoisDias == InitDoisDias /\ [][NextDoisDias]_vars

(* cleaning a raw file, then aggregating the cleaned rows by state *)

InitTratamento ==
    /\ df = <<>>
    /\ agregados = SemAgregados
    /\ config = SemConfig
    /\ chamada = NenhumaChamada
    /\ retorno = NadaRetornado
    /\ arquivo_config = SemArquivo
    /\ log = <<>>
    /\ bruto \in ArquivosBrutos
    /\ execucoes = SemExecucoes
    /\ arquivo_alertas = SemAlertasSalvos
    /\ coleta = SemColeta

NextTratamento ==
    \/ \E force \in BOOLEAN : TratarArquivo(force)
    \/ AnalisarPorUf

SpecTratamento == InitTratamento /\ [][NextTratamento]_vars

(* the cleaner over raw files whose cleaned file may already exist *)

\* the cleaned files an earlier run over an earlier raw file left
LimposAnteriores == {df_valido(<<r>>) : r \in RegistrosBrutos}

InitReprocessamento ==
    /\ \/ /\ bruto \in ArquivosBrutos
          /\ df = <<>>
       \/ /\ bruto \in {[b EXCEPT !.tratado = TRUE] : b \in ArquivosBrutos}
          /\ df \in LimposAnteriores
    /\ agregados = SemAgregados
    /\ config = SemConfig
    /\ chamada = NenhumaChamada
    /\ retorno = NadaRetornado
    /\ arquivo_config = SemArquivo
    /\ log = <<>>
    /\ execucoes = SemExecucoes
    /\ arquivo_alertas = SemAlertasSalvos
    /\ coleta = SemColeta

NextReprocessamento == \E force \in BOOLEAN : TratarArquivo(force)

SpecReprocessamento == InitReprocessamento /\ [][NextReprocessamento]_vars

(* the spatial aggregators over tables with missing keys *)

InitEspacial ==
    /\ df \in TabelasEspaciais
    /\ agregados = SemAgregados
    /\ config = SemConfig
    /\ chamada = NenhumaChamada
    /\ retorno = NadaRetornado
    /\ arquivo_config = SemArquivo
    /\ log = <<>>
    /\ bruto = SemBruto
    /\ execucoes = SemExecucoes
    /\ arquivo_alertas = SemAlertasSalvos
    /\ coleta = SemColeta

NextEspacial ==
    \/ AnalisarPorUf
    \/ AnalisarPorBioma

SpecEspacial == InitEspacial /\ [][NextEspacial]_vars

(* the report over daily series of up to MaxPeriodos periods *)

\* the counts of the periods of a series: 5 -> 6 and 5 -> 4 sit on the two
\* thresholds, 4 -> 5 is above the upper one and 6 -> 4 below the lower one
ContagensDoRelatorio == {4, 5, 6}

\* serie_temporal_dia.csv as loaded: consecutive days from 2024-01-01
SerieDoRelatorio(contagens) ==
    Retorno("DataFrame",
            [i \in 1..Len(contagens) |-> [periodo |-> i - 1, focos |-> contagens[i]]],
            SemEstatisticas)

SeriesDoRelatorio ==
    {None} \cup {SerieDoRelatorio(c) :
                    c \in UNION {[1..n -> ContagensDoRelatorio] : n \in 0..MaxPeriodos}}

InitRelatorio ==
    /\ df = <<>>
    /\ agregados \in [serie_temporal : SeriesDoRelatorio,
                       focos_por_uf : {None}, focos_por_bioma : {None}]
    /\ config = SemConfig
    /\ chamada = NenhumaChamada
    /\ retorno = NadaRetornado
    /\ arquivo_config = SemArquivo
    /\ log = <<>>
    /\ bruto = SemBruto
    /\ execucoes = SemExecucoes
    /\ arquivo_alertas = SemAlertasSalvos
    /\ coleta = SemColeta

NextRelatorio == GerarRelatorioHtml

SpecRelatorio == InitRelatorio /\ [][NextRelatorio]_vars

(* alert runs appended to the log, and the report loader reading it *)

InitRegistro ==
    /\ df = <<>>
    /\ agregados \in AgregadosDeConfig
    /\ config = SemConfig
    /\ chamada = NenhumaChamada
    /\ retorno = NadaRetornado
    /\ arquivo_config \in {Arquivo("valido", TRUE, TRUE, conteudo) :
                              conteudo \in ConteudosDeArquivo}
    /\ log = <<>>
    /\ bruto = SemBruto
    /\ execucoes = SemExecucoes
    /\ arquivo_alertas = SemAlertasSalvos
    /\ coleta = SemColeta

NextRegistro ==
    \/ AlertasMain
    \/ CarregarAlertas

SpecRegistro == InitRegistro /\ [][NextRegistro]_vars

(* the synthetic collector over short date ranges and every seed *)

InitSintetico ==
    /\ df = <<>>
    /\ agregados = SemAgregados
    /\ config = SemConfig
    /\ chamada = NenhumaChamada
    /\ retorno = NadaRetornado
    /\ arquivo_config = SemArquivo
    /\ log = <<>>
    /\ bruto = SemBruto
    /\ execucoes = SemExecucoes
    /\ arquivo_alertas = SemAlertasSalvos
    /\ coleta \in {Coleta(data_inicio, data_fim, semente) :
                      data_inicio \in 0..MaxDiasDeColeta,
                      data_fim \in 0..MaxDiasDeColeta, semente \in Sementes}

NextSintetico == ColetarDadosInpe

SpecSintetico == InitSintetico /\ [][NextSintetico]_vars

(* the collector over every stream of answers and every disk *)

ColetasIniciais ==
    {[Coleta(data_inicio, data_fim, 0) EXCEPT !.rede = rede, !.disco = disco] :
        data_inicio \in 0..MaxDiasDeColeta, data_fim \in 0..MaxDiasDeColeta,
        rede \in [1..MaxRespostas -> Respostas],
        disco \in [0..MaxDiasDeColeta -> {"ausente", "valido"}]}

InitColeta ==
    /\ df = <<>>
    /\ agregados = SemAgregados
    /\ config = SemConfig
    /\ chamada = NenhumaChamada
    /\ retorno = NadaRetornado
    /\ arquivo_config = SemArquivo
    /\ log = <<>>
    /\ bruto = SemBruto
    /\ execucoes = SemExecucoes
    /\ arquivo_alertas = SemAlertasSalvos
    /\ coleta \in ColetasIniciais

NextColeta ==
    \/ \E tentativas \in 0..MaxRespostas : BaixarArquivo(tentativas)
    \/ ColetarDados

SpecColeta == InitColeta /\ [][NextColeta]_vars

(* one pipeline run, over every choice of flags and every stage outcome *)

\* every stage ends well, or one stage fails or raises
ResultadosDasEtapas ==
    {[etapa \in {Etapas[i] : i \in DOMAIN Etapas} |-> "ok"]}
      \cup {[etapa \in {Etapas[i] : i \in DOMAIN Etapas} |->
                IF etapa = ruim THEN r ELSE "ok"] :
               ruim \in {Etapas[i] : i \in DOMAIN Etapas}, r \in {"falha", "excecao"}}

\* the thresholds of the pipeline's configuration file
ConfigDoPipeline == Config(1, 1, 1, 1, 1, 1)

\* what the pipeline leaves alone or starts from
InicioDoPipeline ==
    /\ df = <<>>
    /\ agregados = SemAgregados
    /\ config = SemConfig
    /\ chamada = NenhumaChamada
    /\ retorno = NadaRetornado
    /\ arquivo_config = Arquivo("valido", TRUE, TRUE, ConfigDoPipeline)
    /\ log = <<>>
    /\ bruto = SemBruto
    /\ arquivo_alertas = SemAlertasSalvos
    /\ coleta = SemColeta

InitPipeline ==
    /\ InicioDoPipeline
    /\ execucoes \in {<<Execucao(TabelaDeDoisDias(2, 0), skip, dependencias, resultados)>> :
                         skip \in SUBSET Flags, dependencias \in BOOLEAN,
                         resultados \in ResultadosDasEtapas}

NextPipeline == \E e \in DOMAIN execucoes : Passo(e)

SpecPipeline == InitPipeline /\ [][NextPipeline]_vars

(* two pipeline runs over different windows, as two processes *)

InitParalelo ==
    /\ InicioDoPipeline
    /\ execucoes \in {<<Execucao(TabelaDeDoisDias(2, 0), s1, TRUE,
                                  [etapa \in {Etapas[i] : i \in DOMAIN Etapas} |-> "ok"]),
                         Execucao(TabelaDeDoisDias(0, 1), s2, TRUE,
                                  [etapa \in {Etapas[i] : i \in DOMAIN Etapas} |-> "ok"])>> :
                         s1 \in {{}, {"relatorios"}}, s2 \in {{}, {"relatorios"}}}

NextParalelo == \E e \in DOMAIN execucoes : Passo(e)

SpecParalelo == InitParalelo /\ [][NextParalelo]_vars

(* the regional anomaly evaluator over structured tables *)

InitRegiao ==
    /\ df \in TabelasRegiao
    /\ agregados = SemAgregados
    /\ config = SemConfig
    /\ chamada = NenhumaChamada
    /\ retorno = NadaRetornado
    /\ arquivo_config = SemArquivo
    /\ log = <<>>
    /\ bruto = SemBruto
    /\ execucoes = SemExecucoes
    /\ arquivo_alertas = SemAlertasSalvos
    /\ coleta = SemColeta

NextRegiao == \E data_ref \in {NaT, Dia(5), Dia(NumDatas)} :
                  GerarAlertaPorRegiao(data_ref)

SpecRegiao == InitRegiao /\ [][NextRegiao]_vars

(* the temporal aggregators over dated tables *)

InitTemporal ==
    /\ df \in TabelasCurtas \cup TabelasPico
    /\ agregados = SemAgregados
    /\ config = SemConfig
    /\ chamada = NenhumaChamada
    /\ retorno = NadaRetornado
    /\ arquivo_config = SemArquivo
    /\ log = <<>>
    /\ bruto = SemBruto
    /\ execucoes = SemExecucoes
    /\ arquivo_alertas = SemAlertasSalvos
    /\ coleta = SemColeta

NextTemporal ==
    \/ \E periodo \in Periodos, janela \in Janelas : AnalisarSerieTemporal(periodo, janela)
    \/ GerarSerieTemporal

SpecTemporal == InitTemporal /\ [][NextTemporal]_vars

-----------------------------------------------------------------------------
(* Temporal aggregation: claims *)

Linhas == retorno.linhas
FocosDe(linhas) == Coluna(linhas, "focos")
Analisou == chamada.op = "analisar_serie_temporal"
DatasValidas == {i \in DOMAIN df : df[i].data # NaT}

\* C1: analisar_serie_temporal returns one row per distinct period present in
\* the table, in strictly ascending period order, and each row's focos is the
\* number of observations whose timestamp falls in that period, so the counts
\* sum to the number of observations with a parseable timestamp.
C1_UmaLinhaPorPeriodo ==
    (Analisou /\ Len(df) > 0) =>
        /\ retorno.tipo = "tupla"
        /\ {Linhas[i].periodo : i \in DOMAIN Linhas}
             = {PeriodoDe(df[k].data, chamada.periodo) : k \in DatasValidas}
        /\ Len(Linhas)
             = Cardinality({PeriodoDe(df[k].data, chamada.periodo) : k \in DatasValidas})
        /\ \A i, j \in DOMAIN Linhas : i < j => Linhas[i].periodo < Linhas[j].periodo
        /\ \A i \in DOMAIN Linhas :
              Linhas[i].focos
                = Cardinality({k \in DatasValidas :
                                 PeriodoDe(df[k].data, chamada.periodo) = Linhas[i].periodo})
        /\ Soma(FocosDe(Linhas), 1, Len(Linhas)) = Cardinality(DatasValidas)

\* an unsorted table with an unparseable timestamp, aggregated by week into
\* at least two weeks
C1_Witness ==
    /\ Analisou
    /\ chamada.periodo = "semana"
    /\ Len(Linhas) >= 2
    /\ \E k \in DOMAIN df : df[k].data = NaT
    /\ \E k \in DOMAIN df : k > 1 /\ df[k].data # NaT /\ df[k].data < df[k - 1].data

JanelaEfetiva == IF chamada.janela <= 0 THEN 1 ELSE chamada.janela
InicioDaJanela(i) == IF i - JanelaEfetiva + 1 < 1 THEN 1 ELSE i - JanelaEfetiva + 1

\* C2: with window w, the rolling mean at every index i is the arithmetic
\* mean of counts[max(0, i-w+1) .. i]; the first w-1 rows carry a defined
\* mean over the periods available so far, and a window w <= 0 is w = 1.
C2_MediaMovel ==
    (Analisou /\ retorno.tipo = "tupla") =>
        \A i \in DOMAIN Linhas :
            /\ ~EhNaN(Linhas[i].media_movel)
            /\ Linhas[i].media_movel.num * (i - InicioDaJanela(i) + 1)
                 = Linhas[i].media_movel.den
                     * Soma(FocosDe(Linhas), InicioDaJanela(i), i)

\* the window has slid past a row whose count differs from the newest one
C2_Witness ==
    /\ Analisou
    /\ chamada.janela = 2
    /\ Len(Linhas) >= 3
    /\ Linhas[1].focos # Linhas[3].focos

\* C3: gerar_serie_temporal computes its 7-period rolling mean with
\* minimum-periods-available semantics: in the first 6 rows media_movel is
\* the mean of the periods available so far and is never NaN.
C3_MediaMovelSemNaN ==
    chamada.op = "gerar_serie_temporal" =>
        \A i \in DOMAIN Linhas :
            /\ ~EhNaN(Linhas[i].media_movel)
            /\ FracaoIgual(Linhas[i].media_movel,
                           Fracao(Soma(FocosDe(Linhas), IF i > 7 THEN i - 6 ELSE 1, i),
                                  IF i > 7 THEN 7 ELSE i))

\* C4: the peak flag of period i is true exactly when
\* count[i] > mean(all counts) + 2 * stddev(all counts), the mean and the
\* (sample) standard deviation taken once over the whole series; a series
\* with a single period or with all counts equal has no peak.
C4_Pico ==
    (Analisou /\ retorno.tipo = "tupla") =>
        LET c == FocosDe(Linhas)
            n == Len(c)
            s == Soma(c, 1, n)
            q == SomaQuadrados(c, 1, n)
        IN  /\ \A i \in DOMAIN Linhas :
                  Linhas[i].pico
                    <=> /\ n >= 2
                        /\ n * c[i] > s
                        /\ (n * c[i] - s) * (n * c[i] - s) * (n - 1) > 4 * n * (n * q - s * s)
            /\ (n = 1 \/ \A i, j \in DOMAIN Linhas : c[i] = c[j])
                  => \A i \in DOMAIN Linhas : ~Linhas[i].pico

C4_Witness ==
    /\ Analisou
    /\ \E i \in DOMAIN Linhas : Linhas[i].pico
    /\ \E i \in DOMAIN Linhas : ~Linhas[i].pico

-----------------------------------------------------------------------------
(* Empty input: claims *)

Agregadores == {"analisar_serie_temporal", "analisar_por_uf", "analisar_por_bioma"}
Avaliadores == {"verificar_alertas", "gerar_alerta_por_regiao"}

\* the aggregates handed to verificar_alertas are those of an empty table
AgregadosSemLinhas ==
    /\ SemLinhas(agregados.serie_temporal)
    /\ SemLinhas(agregados.focos_por_uf)
    /\ SemLinhas(agregados.focos_por_bioma)

\* C5: for an empty observation set the temporal and spatial aggregators
\* each return an empty aggregate sequence (not an error and not an absent
\* value) and the alert evaluators return an empty alert list.
C5_VazioDaVazio ==
    Len(df) = 0 =>
        /\ chamada.op \in Agregadores
              => retorno.tipo \in {"tupla", "DataFrame"} /\ Len(Linhas) = 0
        /\ (chamada.op = "gerar_alerta_por_regiao"
               \/ (chamada.op = "verificar_alertas" /\ AgregadosSemLinhas))
              => retorno.tipo = "lista" /\ Len(Linhas) = 0

-----------------------------------------------------------------------------
(* Threshold alerts: claims *)

Verificou == chamada.op = "verificar_alertas"
AlertasDoTipo(tipo) == {i \in DOMAIN Linhas : Linhas[i].tipo = tipo}
SerieDada == agregados.serie_temporal.linhas
UltimoDia == SerieDada[Len(SerieDada)]

\* C6: verificar_alertas emits a global_diario alert if and only if the count
\* of the last row of the daily series is strictly greater than the
\* configured daily ceiling; the alert carries that count as valor and the
\* ceiling as limite, and a count equal to the ceiling emits no alert.
C6_AlertaDiario ==
    (Verificou /\ TemChave(config.global, "diario")) =>
        IF SemLinhas(agregados.serie_temporal)
        THEN AlertasDoTipo("global_diario") = {}
        ELSE /\ Cardinality(AlertasDoTipo("global_diario"))
                  = IF UltimoDia.focos > config.global.diario THEN 1 ELSE 0
             /\ \A i \in AlertasDoTipo("global_diario") :
                   /\ Linhas[i].valor = UltimoDia.focos
                   /\ Linhas[i].limite = config.global.diario

\* the last day is over the ceiling although an earlier day is not
C6_Witness ==
    /\ Verificou
    /\ AlertasDoTipo("global_diario") # {}
    /\ Len(SerieDada) >= 2
    /\ SerieDada[1].focos <= config.global.diario

InicioDosUltimos7 == IF Len(SerieDada) >= 7 THEN Len(SerieDada) - 6 ELSE 1
TotalDosUltimos7 == Soma(Coluna(SerieDada, "focos"), InicioDosUltimos7, Len(SerieDada))

\* C7: verificar_alertas emits a global_semanal alert if and only if the sum
\* of the counts of the trailing 7 periods (all of them when there are fewer
\* than 7) is strictly greater than the configured weekly ceiling; the alert
\* carries that sum, the ceiling, and the first and last period of the window.
C7_AlertaSemanal ==
    (Verificou /\ TemChave(config.global, "semanal")
       /\ ~SemLinhas(agregados.serie_temporal)) =>
        /\ Cardinality(AlertasDoTipo("global_semanal"))
             = IF TotalDosUltimos7 > config.global.semanal THEN 1 ELSE 0
        /\ \A i \in AlertasDoTipo("global_semanal") :
              /\ Linhas[i].valor = TotalDosUltimos7
              /\ Linhas[i].limite = config.global.semanal
              /\ Linhas[i].data_inicio = strftime(SerieDada[InicioDosUltimos7].periodo)
              /\ Linhas[i].data_fim = strftime(UltimoDia.periodo)

\* the ceiling the claim applies to a region: its own, else the default
TetoDaRegiao(limites, chave) ==
    IF TemChave(limites, chave) THEN limites[chave] ELSE limites.default
TemTeto(limites, chave) == TemChave(limites, chave) \/ TemChave(limites, "default")

\* C8: for every state and biome row the ceiling applied is the region's own
\* configured limit when the configuration has an entry for the region, and
\* the configured default otherwise; exactly one regional alert is emitted
\* for each region whose count is strictly greater than its ceiling, and
\* none for the others.
C8_AlertasRegionais ==
    Verificou =>
        /\ \A r \in DOMAIN agregados.focos_por_uf.linhas :
              LET row == agregados.focos_por_uf.linhas[r]
                  doUf == {i \in AlertasDoTipo("uf") : Linhas[i].uf = row.uf}
              IN  TemTeto(config.por_uf, row.uf) =>
                    /\ Cardinality(doUf)
                         = IF row.focos > TetoDaRegiao(config.por_uf, row.uf) THEN 1 ELSE 0
                    /\ \A i \in doUf :
                          /\ Linhas[i].valor = row.focos
                          /\ Linhas[i].limite = TetoDaRegiao(config.por_uf, row.uf)
        /\ \A r \in DOMAIN agregados.focos_por_bioma.linhas :
              LET row == agregados.focos_por_bioma.linhas[r]
                  doBioma == {i \in AlertasDoTipo("bioma") : Linhas[i].bioma = row.bioma}
              IN  TemTeto(config.por_bioma, row.bioma) =>
                    /\ Cardinality(doBioma)
                         = IF row.focos > TetoDaRegiao(config.por_bioma, row.bioma)
                           THEN 1 ELSE 0
                    /\ \A i \in doBioma :
                          /\ Linhas[i].valor = row.focos
                          /\ Linhas[i].limite = TetoDaRegiao(config.por_bioma, row.bioma)

-----------------------------------------------------------------------------
(* Anomaly alerts by region: claims *)

GerouPorRegiao == chamada.op = "gerar_alerta_por_regiao"
DataRef == IF chamada.data_ref = NaT THEN DataMaxima(df) ELSE chamada.data_ref

Regioes(campo) == {df[i][campo] : i \in DOMAIN df}
\* the number of observations of a region on a date
Contagem(campo, local, d) ==
    Cardinality({i \in DOMAIN df : df[i][campo] = local /\ df[i].data = d})
DatasDaRegiao(campo, local) ==
    {df[i].data : i \in {j \in DOMAIN df : df[j][campo] = local}} \ {NaT}
\* the region's trailing window at the reference date: its last 7 dates with
\* observations, the reference date included
JanelaDaRegiao(campo, local) ==
    {d \in DatasDaRegiao(campo, local) :
        /\ d <= DataRef
        /\ Cardinality({e \in DatasDaRegiao(campo, local) : d < e /\ e <= DataRef}) < 7}

RECURSIVE SomaContagens(_, _, _)
SomaContagens(campo, local, datas) ==
    IF datas = {} THEN 0
    ELSE LET d == CHOOSE x \in datas : TRUE
         IN  Contagem(campo, local, d) + SomaContagens(campo, local, datas \ {d})

RECURSIVE SomaContagensQuadradas(_, _, _)
SomaContagensQuadradas(campo, local, datas) ==
    IF datas = {} THEN 0
    ELSE LET d == CHOOSE x \in datas : TRUE
         IN  Contagem(campo, local, d) * Contagem(campo, local, d)
               + SomaContagensQuadradas(campo, local, datas \ {d})

\* count on the reference date > baseline mean + 1.5 * baseline stddev,
\* and baseline mean > 0
ExcedeBase(campo, local) ==
    LET w == JanelaDaRegiao(campo, local)
        n == Cardinality(w)
        c == Contagem(campo, local, DataRef)
        s == SomaContagens(campo, local, w)
        q == SomaContagensQuadradas(campo, local, w)
    IN  /\ c > 0
        /\ n >= 2
        /\ s > 0
        /\ n * c > s
        /\ 4 * (n * c - s) * (n * c - s) * (n - 1) > 9 * n * (n * q - s * s)

\* percent increase of the count over the baseline mean > 100
AumentoMaiorQue100(campo, local) ==
    LET w == JanelaDaRegiao(campo, local)
    IN  100 * (Cardinality(w) * Contagem(campo, local, DataRef)
                 - SomaContagens(campo, local, w))
          > 100 * SomaContagens(campo, local, w)

AlertasDe(tipo, local) ==
    {i \in DOMAIN Linhas : Linhas[i].tipo = tipo /\ Linhas[i].local = local}

AlertaConforme(tipo, campo, local) ==
    /\ Cardinality(AlertasDe(tipo, local)) = IF ExcedeBase(campo, local) THEN 1 ELSE 0
    /\ \A i \in AlertasDe(tipo, local) :
          /\ Linhas[i].focos = Contagem(campo, local, DataRef)
          /\ Linhas[i].nivel
               = IF AumentoMaiorQue100(campo, local) THEN "ALTO" ELSE "MEDIO"

\* C9: gerar_alerta_por_regiao emits a regional alert for a state or biome
\* exactly when the region's count on the reference date exceeds
\* baseline_mean + 1.5 * baseline_stddev over the trailing 7-period window
\* and baseline_mean > 0; its severity is ALTO when the percent increase of
\* the count over the baseline mean is strictly greater than 100, and MEDIO
\* otherwise.
C9_AlertaPorRegiao ==
    GerouPorRegiao =>
        /\ \A uf \in Regioes("uf") : AlertaConforme("UF", "uf", uf)
        /\ \A bioma \in Regioes("bioma") : AlertaConforme("Bioma", "bioma", bioma)
        /\ \A i \in DOMAIN Linhas :
              \/ Linhas[i].tipo = "UF" /\ Linhas[i].local \in Regioes("uf")
              \/ Linhas[i].tipo = "Bioma" /\ Linhas[i].local \in Regioes("bioma")

\* a state of more than 7 dates alerts at MEDIO while its biome alerts at ALTO
\* or not at all
C9_Witness ==
    /\ GerouPorRegiao
    /\ \E i \in DOMAIN Linhas :
          /\ Linhas[i].tipo = "UF"
          /\ Linhas[i].nivel = "MEDIO"
          /\ Cardinality(DatasDaRegiao("uf", Linhas[i].local)) > 7
    /\ \A i \in DOMAIN Linhas : Linhas[i].tipo = "Bioma" => Linhas[i].nivel = "ALTO"

\* the observations of a region before the reference date, in its window
HistoricoDaRegiao(campo, local) ==
    SomaContagens(campo, local, JanelaDaRegiao(campo, local) \ {DataRef})

\* the divisor of the percent increase: the sum behind the baseline mean
DivisorDoAumento(campo, local) ==
    SomaContagens(campo, local, JanelaDaRegiao(campo, local))

SemAlertaSemHistorico(tipo, campo) ==
    \A local \in Regioes(campo) :
        /\ HistoricoDaRegiao(campo, local) = 0 => AlertasDe(tipo, local) = {}
        /\ AlertasDe(tipo, local) # {} => DivisorDoAumento(campo, local) > 0
        /\ \A i \in AlertasDe(tipo, local) : Linhas[i].aumento # Ausente

\* C10: a region whose historical baseline is zero never triggers an anomaly
\* alert, and the percent-increase computation never divides by zero.
C10_BaseZero ==
    GerouPorRegiao =>
        /\ SemAlertaSemHistorico("UF", "uf")
        /\ SemAlertaSemHistorico("Bioma", "bioma")

\* a state first seen on the reference date stays silent while another
\* state alerts
C10_Witness ==
    /\ GerouPorRegiao
    /\ \E uf \in Regioes("uf") :
          /\ Contagem("uf", uf, DataRef) > 0
          /\ HistoricoDaRegiao("uf", uf) = 0
          /\ AlertasDe("UF", uf) = {}
    /\ \E i \in DOMAIN Linhas : Linhas[i].tipo = "UF"

-----------------------------------------------------------------------------
(* Purity of the alert evaluators *)

\* the evaluator of the last call, run again on the inputs as they are now
Reavaliacao ==
    IF chamada.op = "verificar_alertas"
    THEN verificar_alertas(agregados.serie_temporal, agregados.focos_por_uf,
                           agregados.focos_por_bioma, config)
    ELSE gerar_alerta_por_regiao(df, chamada.data_ref)

-----------------------------------------------------------------------------
(* Configuration: claims *)

\* C12: carregar_config never raises: whenever the configuration file is
\* missing, unreadable or malformed, it returns the built-in default
\* threshold set (global 1000 / 5000; per-UF AM 200, PA 300, default 100;
\* per-biome Amazonia 500, Cerrado 300, default 100) and logs the fallback.
C12_ConfigPadrao ==
    [][chamada'.op = "carregar_config" =>
          /\ retorno'.tipo = "config"
          /\ arquivo_config.estado # "valido" =>
                /\ config' = config_padrao
                /\ log' # <<>>]_vars

\* the configuration with each missing ceiling the rules read (global daily,
\* global weekly, per-UF default, per-biome default) taken from the built-in
\* defaults
ValorOuPadrao(secao, chave) ==
    IF TemChave(config[secao], chave) THEN config[secao][chave]
    ELSE config_padrao[secao][chave]
ConfigComPadroes ==
    [global    |-> [config.global EXCEPT
                       !.diario = ValorOuPadrao("global", "diario"),
                       !.semanal = ValorOuPadrao("global", "semanal")],
     por_uf    |-> [config.por_uf EXCEPT
                       !.default = ValorOuPadrao("por_uf", "default")],
     por_bioma |-> [config.por_bioma EXCEPT
                       !.default = ValorOuPadrao("por_bioma", "default")]]

\* C13: when the configuration document loads but lacks a recognised
\* threshold key, verificar_alertas uses the built-in default value for the
\* missing key and still evaluates every rule (global daily, global weekly,
\* per-UF, per-biome) on the given aggregates: it returns what it returns
\* for the configuration completed with the defaults.
C13_ChavesAusentes ==
    Verificou =>
        retorno = verificar_alertas(agregados.serie_temporal, agregados.focos_por_uf,
                                    agregados.focos_por_bioma, ConfigComPadroes)

-----------------------------------------------------------------------------
(* Scenario of two days: claims *)

\* 10 observations dated 2024-01-01 and 5 dated 2024-01-02, all in SP, with
\* a per-state threshold of 8 for SP
DezECinco ==
    /\ Len(df) = 15
    /\ Cardinality({i \in DOMAIN df : df[i].data = 0 /\ df[i].uf = "SP"}) = 10
    /\ Cardinality({i \in DOMAIN df : df[i].data = 1 /\ df[i].uf = "SP"}) = 5
    /\ config.por_uf.SP = 8

\* C14: given 10 observations dated 2024-01-01 and 5 dated 2024-01-02, all in
\* SP, and a per-state threshold of 8 for SP, the temporal aggregation yields
\* the daily counts [10, 5], and alert evaluation over these aggregates fires
\* exactly one alert, attributable to 2024-01-01 (10 > 8), and no alert for
\* 2024-01-02 (5 <= 8).
C14_DoisDias ==
    DezECinco =>
        /\ Analisou => FocosDe(Linhas) = <<10, 5>>
        /\ Verificou =>
              /\ Len(Linhas) = 1
              /\ "data" \in DOMAIN Linhas[1]
              /\ Linhas[1].data = strftime(0)
              /\ Linhas[1].valor = 10

-----------------------------------------------------------------------------
(* Cleaning: claims *)

\* the row carries a number in each coordinate, inside the envelope:
\* latitude in [-33.75, 5.2725], longitude in [-73.99, -34.793]
NoEnvelope(row) ==
    /\ row.latitude.tipo = "num"
    /\ row.longitude.tipo = "num"
    /\ row.latitude.v \in -675000..105450
    /\ row.longitude.v \in -1479800..-695860

\* the raw row has an invalid or missing code, or a number outside the
\* envelope in a coordinate
ParaDescartar(row) ==
    \/ row.uf \notin ufs_validas
    \/ row.latitude.tipo = "num" /\ row.latitude.v \notin -675000..105450
    \/ row.longitude.tipo = "num" /\ row.longitude.v \notin -1479800..-695860

\* C15: every record in the cleaned output of tratar_arquivo has a state
\* code that is one of the 27 valid UF codes and coordinates inside Brazil's
\* bounding envelope; a record with an invalid code such as 'XX', a missing
\* code, or out-of-envelope coordinates is dropped, so a state aggregate built
\* from cleaned data has no 'XX' entry and its total counts only valid
\* records.
C15_SomenteValidos ==
    /\ Cardinality(ufs_validas) = 27
    /\ \A i \in DOMAIN df : df[i].uf \in ufs_validas /\ NoEnvelope(df[i])
    /\ bruto.tratado =>
          /\ \A k \in DOMAIN bruto.linhas :
                ParaDescartar(bruto.linhas[k]) =>
                    \A i \in DOMAIN df : df[i] # bruto.linhas[k]
          /\ Len(df) <= Cardinality({bruto.linhas[k] : k \in
                           {j \in DOMAIN bruto.linhas : ~ParaDescartar(bruto.linhas[j])}})
    /\ (chamada.op = "analisar_por_uf" /\ retorno.tipo = "DataFrame") =>
          /\ \A i \in DOMAIN Linhas : Linhas[i].uf \in ufs_validas
          /\ Soma(FocosDe(Linhas), 1, Len(Linhas)) = Len(df)

\* a raw file with an 'XX' row and a valid row was cleaned and aggregated
C15_Witness ==
    /\ chamada.op = "analisar_por_uf"
    /\ bruto.tratado
    /\ \E k \in DOMAIN bruto.linhas : bruto.linhas[k].uf = "XX"
    /\ Len(Linhas) >= 1
    /\ Len(df) < Len(bruto.linhas)

-----------------------------------------------------------------------------
(* Spatial aggregation: claims *)

AnalisouRegioes ==
    /\ chamada.op \in {"analisar_por_uf", "analisar_por_bioma"}
    /\ retorno.tipo = "DataFrame"
CampoChave == IF chamada.op = "analisar_por_uf" THEN "uf" ELSE "bioma"
\* the observations that carry the grouping key
ComChave == {k \in DOMAIN df : df[k][CampoChave] # ""}
SemChave == DOMAIN df \ ComChave
TotalDeFocos == Soma(FocosDe(Linhas), 1, Len(Linhas))

\* C16: analisar_por_uf and analisar_por_bioma return one row per distinct
\* key value present, ordered by count descending with ties broken by key
\* ascending, so that two inputs containing the same multiset of observations
\* always yield the same row order.
C16_OrdemDeterminada ==
    AnalisouRegioes =>
        /\ {Linhas[i][CampoChave] : i \in DOMAIN Linhas}
              = {df[k][CampoChave] : k \in ComChave}
        /\ Len(Linhas) = Cardinality({df[k][CampoChave] : k \in ComChave})
        /\ \A i, j \in DOMAIN Linhas :
              i < j =>
                 \/ Linhas[i].focos > Linhas[j].focos
                 \/ /\ Linhas[i].focos = Linhas[j].focos
                    /\ Posicao(Linhas[i][CampoChave]) < Posicao(Linhas[j][CampoChave])

\* C17: for every non-empty observation set, the per-region counts returned
\* by analisar_por_uf (resp. analisar_por_bioma) sum to exactly the number of
\* input observations that carry a state (resp. biome) value; observations
\* missing the key contribute to no region.
C17_SomaDasRegioes ==
    (AnalisouRegioes /\ Len(df) > 0) =>
        /\ TotalDeFocos = Cardinality(ComChave)
        /\ \A i \in DOMAIN Linhas :
              /\ Linhas[i][CampoChave] # ""
              /\ Linhas[i].focos
                   = Cardinality({k \in ComChave :
                                    df[k][CampoChave] = Linhas[i][CampoChave]})

\* some observations carry the key and some do not
C17_Witness ==
    /\ AnalisouRegioes
    /\ SemChave # {}
    /\ Len(Linhas) >= 2

RECURSIVE SomaDosPercentuais(_, _)
SomaDosPercentuais(linhas, n) ==
    IF n = 0 THEN Fracao(0, 1)
    ELSE LET s == SomaDosPercentuais(linhas, n - 1)
             q == linhas[n].percentual
         IN  Fracao(s.num * q.den + q.num * s.den, s.den * q.den)

\* C18: in every regional aggregate table returned by analisar_por_uf or
\* analisar_por_bioma, each row's percentage is 100 * count / (sum of all
\* counts in that table), so the percentages of one table sum to 100.
C18_Percentuais ==
    AnalisouRegioes =>
        /\ \A i \in DOMAIN Linhas :
              FracaoIgual(Linhas[i].percentual,
                          Fracao(100 * Linhas[i].focos, TotalDeFocos))
        /\ Len(Linhas) > 0 =>
              FracaoIgual(SomaDosPercentuais(Linhas, Len(Linhas)), Fracao(100, 1))

\* a table of two regions with shares of two thirds and one third
C18_Witness ==
    /\ AnalisouRegioes
    /\ Len(Linhas) = 2
    /\ Linhas[1].focos = 2 * Linhas[2].focos

\* C19: when some observations lack the grouping key, the spatial aggregator
\* excludes them from every region and reports how many were excluded
\* through a separate excluded-count value, so that (sum of region counts) +
\* (excluded count) equals the number of input observations and no 'unknown'
\* bucket absorbs them.
C19_ContagemDeExcluidos ==
    (AnalisouRegioes /\ SemChave # {}) =>
        /\ \A i \in DOMAIN Linhas :
              Linhas[i][CampoChave] \notin {"", "Desconhecido"}
        /\ "excluidos" \in DOMAIN retorno
        /\ retorno.excluidos = Cardinality(SemChave)
        /\ TotalDeFocos + retorno.excluidos = Len(df)

-----------------------------------------------------------------------------
(* Report *)

GerouRelatorio == chamada.op = "gerar_relatorio_html"
SerieRelatada ==
    IF agregados.serie_temporal.tipo = "None" THEN <<>> ELSE agregados.serie_temporal.linhas
\* first row of the trailing window of 7 periods
InicioDaTendencia == IF Len(SerieRelatada) >= 7 THEN Len(SerieRelatada) - 6 ELSE 1
PrimeiraContagem == SerieRelatada[InicioDaTendencia].focos
UltimaContagem == SerieRelatada[Len(SerieRelatada)].focos

\* C20: for every non-empty periodic series the report's trend label is
\* exactly one of Increasing, Decreasing and Stable, decided by the first and
\* the last count of the trailing 7-period window (the whole series when it
\* has fewer than 7 periods): Increasing if last > first * 1.2, Decreasing if
\* last < first * 0.8, Stable otherwise.
C20_Tendencia ==
    (GerouRelatorio /\ Len(SerieRelatada) > 0) =>
        retorno.tendencia =
            IF 5 * UltimaContagem > 6 * PrimeiraContagem THEN "Crescente"
            ELSE IF 5 * UltimaContagem < 4 * PrimeiraContagem THEN "Decrescente"
            ELSE "Estavel"

-----------------------------------------------------------------------------
(* Failures *)

\* the evaluation raised inside one of its blocks: a key the block reads is
\* not in the configuration
ErroInterno ==
    \/ alertas_globais(agregados.serie_temporal, config.global).erro
    \/ alertas_por_uf(agregados.focos_por_uf, config.por_uf).erro
    \/ alertas_por_bioma(agregados.focos_por_bioma, config.por_bioma).erro

\* C21: no aggregation or alert-evaluation operation passes off a failed
\* evaluation as a normal result: when verificar_alertas hits an internal
\* error the caller receives a result that indicates failure together with a
\* diagnostic message, distinguishable from a successful evaluation that
\* found no (or fewer) alerts.
C21_FalhaSinalizada ==
    (Verificou /\ ErroInterno) =>
        /\ retorno.tipo # "lista"
        /\ "mensagem" \in DOMAIN retorno

-----------------------------------------------------------------------------
(* Frame of the temporal aggregator *)

\* C22: observations are immutable after ingestion: analisar_serie_temporal
\* leaves the observation table passed to it unchanged (same columns, same
\* rows, same values) for every granularity.
C22_TabelaIntacta ==
    [][chamada'.op = "analisar_serie_temporal" => df' = df]_vars

-----------------------------------------------------------------------------
(* Alert log *)

CarregouAlertas == chamada.op = "carregar_dados_analise"
\* the messages of the most recent alert run, one per line
MensagensDaUltimaExecucao ==
    [i \in DOMAIN arquivo_alertas.ultimos |-> <<Mensagem(arquivo_alertas.ultimos[i])>>]

\* C26: the alert block written by salvar_alertas_arquivo round-trips
\* through the report loader: after any sequence of alert runs appended to
\* the log, relatorio.carregar_dados_analise returns exactly the alert
\* messages of the most recent run, in order, with no header, footer or
\* timestamp line and no message of an earlier run.
C26_IdaEVolta ==
    (CarregouAlertas /\ arquivo_alertas.hora > 0) =>
        retorno.linhas = MensagensDaUltimaExecucao

-----------------------------------------------------------------------------
(* Synthetic collector *)

ColetouSintetico == chamada.op = "coletar_dados_inpe"
RegistrosDe(data, uf) ==
    {i \in DOMAIN Linhas : Linhas[i].data = data /\ Linhas[i].uf = uf}

\* C25: for every date range containing at least one day, coletar_dados_inpe
\* returns a non-empty table whose set of state codes is exactly the set of
\* the 27 keys of COORDENADAS_UF, with at least 2 records for every state on
\* every date of the range.
C25_TodasAsUfs ==
    (ColetouSintetico /\ coleta.data_inicio <= coleta.data_fim) =>
        /\ retorno.tipo = "DataFrame"
        /\ Len(Linhas) > 0
        /\ {Linhas[i].uf : i \in DOMAIN Linhas} = DOMAIN COORDENADAS_UF
        /\ Cardinality({Linhas[i].uf : i \in DOMAIN Linhas}) = 27
        /\ \A data \in coleta.data_inicio..coleta.data_fim :
              \A uf \in DOMAIN COORDENADAS_UF :
                 Cardinality(RegistrosDe(data, uf)) >= 2

\* a range of several days in which one state has exactly 2 records on one
\* date and more than 2 on another
C25_Witness ==
    /\ ColetouSintetico
    /\ coleta.data_inicio < coleta.data_fim
    /\ \E uf \in DOMAIN COORDENADAS_UF :
          /\ Cardinality(RegistrosDe(coleta.data_inicio, uf)) = 2
          /\ Cardinality(RegistrosDe(coleta.data_fim, uf)) > 2

-----------------------------------------------------------------------------
(* Collector *)

Baixou == chamada.op = "baixar_arquivo"
Tentativas == chamada.janela

\* C27: baixar_arquivo terminates after at most 'tentativas' download
\* attempts: it stops and returns True at the first attempt that yields a
\* non-empty file, a failed attempt is followed by another attempt as long
\* as attempts remain, and it returns False only after all 'tentativas'
\* attempts have failed.
C27_Tentativas ==
    Baixou =>
        /\ Len(coleta.pedidos) <= Tentativas
        /\ \A t \in 1..(Len(coleta.pedidos) - 1) : coleta.pedidos[t] # "ok"
        /\ retorno.tipo = "True" <=>
              (Len(coleta.pedidos) > 0 /\ coleta.pedidos[Len(coleta.pedidos)] = "ok")
        /\ retorno.tipo = "False" =>
              (Len(coleta.pedidos) = Tentativas
                 /\ \A t \in 1..Tentativas : coleta.pedidos[t] # "ok")

Coletou == chamada.op = "coletar_dados"
DiasPedidos == coleta.data_inicio..coleta.data_fim
Elementos(xs) == {xs[i] : i \in DOMAIN xs}
Crescente(xs) == \A i, j \in DOMAIN xs : i < j => xs[i] < xs[j]

-----------------------------------------------------------------------------
(* Reprocessing *)

Tratou == chamada.op = "tratar_arquivo"

\* C29: tratar_arquivo reprocesses per the 'force' flag: when the cleaned
\* output file already exists and force is false it returns that existing
\* path and leaves the cleaned file unchanged without reading the raw file;
\* when force is true it reprocesses the raw file and overwrites the cleaned
\* file; on any processing error it returns None.
C29_Reprocessamento ==
    [][chamada'.op = "tratar_arquivo" =>
          IF bruto.tratado /\ chamada'.periodo # "force"
          THEN retorno'.tipo = "caminho" /\ df' = df /\ bruto'.tratado
          ELSE IF bruto.com_colunas
          THEN /\ retorno'.tipo = "caminho"
               /\ df' = df_valido(bruto.linhas)
               /\ bruto'.tratado
          ELSE /\ retorno'.tipo = "None"
               /\ df' = df
               /\ bruto'.tratado = bruto.tratado]_vars

\* without force the cleaned file is kept although the raw file would now
\* give another one
C29_Witness ==
    /\ Tratou
    /\ chamada.periodo # "force"
    /\ retorno.tipo = "caminho"
    /\ bruto.com_colunas
    /\ df # df_valido(bruto.linhas)


------------------------------------------------------------------------------
(* The pipeline: main.py *)

\* the stages a run asks for, in the order of the pipeline: the two
\* analysis stages stand behind the one flag --skip-analise
EtapasPedidas(skip) ==
    SelectSeq(Etapas, LAMBDA etapa :
        ~((IF etapa \in {"analise_temporal", "analise_espacial"} THEN "analise"
           ELSE etapa) \in skip))

Prefixo(xs, ys) == Len(xs) <= Len(ys) /\ xs = SubSeq(ys, 1, Len(xs))

Levantou(run) ==
    \E i \in DOMAIN run.iniciadas : run.resultados[run.iniciadas[i]] = "excecao"

\* C24: a run calls its stages one after the other in the order coleta,
\* tratamento, analise temporal, analise espacial, alertas, relatorios: the
\* stages called so far are the first stages of that order whose flag was
\* not given, the stage about to be called is the next of them, a run that
\* ends without an exception has called every one of them and no other, and
\* a run whose dependency check fails calls no stage and returns 1.
C24_EtapasEmOrdem ==
    \A e \in DOMAIN execucoes :
        LET run == execucoes[e]
            pedidas == EtapasPedidas(run.skip)
        IN  /\ Prefixo(run.iniciadas, pedidas)
            /\ (run.pc \notin {"inicio", "fim"}) =>
                   /\ Len(run.iniciadas) < Len(pedidas)
                   /\ run.pc = pedidas[Len(run.iniciadas) + 1]
            /\ (run.pc = "fim" /\ run.dependencias /\ ~Levantou(run)) =>
                   run.iniciadas = pedidas
            /\ ~run.dependencias =>
                   /\ run.iniciadas = <<>>
                   /\ run.pc = "fim" => run.codigo = 1

C24_Witness ==
    \E e \in DOMAIN execucoes :
        /\ execucoes[e].pc = "fim"
        /\ execucoes[e].codigo = 0
        /\ execucoes[e].skip = {"coleta", "alertas"}
        /\ execucoes[e].iniciadas =
              <<"tratamento", "analise_temporal", "analise_espacial", "relatorios">>

\* C30: the exit code of a finished run reflects the outcome of its stages:
\* it is 0 only if every stage the run called completed successfully, and
\* it is 1 whenever a stage the run called failed, whether the failure was
\* caught inside the stage or reached main.
C30_CodigoDeSaida ==
    \A e \in DOMAIN execucoes :
        LET run == execucoes[e]
            falhou == \E i \in DOMAIN run.iniciadas :
                         run.resultados[run.iniciadas[i]] # "ok"
        IN  run.pc = "fim" =>
                /\ run.codigo = 0 => ~falhou
                /\ falhou => run.codigo = 1

\* the series of a run's own window
SerieDaJanela(run) == SerieDe(analisar_serie_temporal(run.janela, "dia", 7))

\* C23: two runs over different windows, as two processes, are independent
\* in every interleaving of their stages: the aggregates a run's alert
\* stage read are the aggregates of its own window, the alerts it emitted
\* are the alerts of those aggregates, and its report shows the series of
\* its own window.
C23_Independentes ==
    \A e \in DOMAIN execucoes :
        LET run == execucoes[e]
        IN  /\ (\E i \in DOMAIN run.iniciadas : run.iniciadas[i] = "alertas") =>
                  \E a \in AgregadosDe(run.janela) :
                      /\ run.lidos = a
                      /\ run.alertas =
                            verificar_alertas(a.serie_temporal, a.focos_por_uf,
                                              a.focos_por_bioma, ConfigDoPipeline).linhas
            /\ (\E i \in DOMAIN run.iniciadas : run.iniciadas[i] = "relatorios") =>
                  [run.relatorio EXCEPT !.linhas = <<>>] =
                      gerar_relatorio_html(SerieDaJanela(run))

====
